---- MODULE Spec2Model ----
(***************************************************************************)
(* Model of the eigen-skeleton workflow engine: the callable, workflow and *)
(* tool registries, the defineWorkflow builder DSL (addNode, addEdge,      *)
(* finalizeConditionalEdges, compile) and compiledWorkflow.run, which      *)
(* hands the compiled StateGraph to the LangGraph runtime (app.invoke with *)
(* a per-workflow MemorySaver and a fixed thread id).  The runtime is      *)
(* modelled superstep by superstep: the nodes active in a step read the    *)
(* state as it was when the step began, their updates are written to the   *)
(* state channels when the step ends, and every node's outgoing edges and  *)
(* routing function give the nodes of the next step.                       *)
(***************************************************************************)
EXTENDS Integers, Sequences, FiniteSets, TLC

VARIABLES
    callables,  \* callableRegistry: Map<string, CallableRegistrationFunction>
    workflows,  \* workflowRegistry: Map<string, CompiledWorkflow>
    tools,      \* toolRegistry: Map<string, ToolFunction>
    apps,       \* the compiled workflows created so far (object identity = index)
    savers,     \* savers[i]: the MemorySaver of apps[i], thread id -> saved values
    stack,      \* the run in progress: frames of app.invoke, innermost last
    outcome,    \* what the last top-level run call gave its caller
    thrown,     \* the error the last registry or defineWorkflow call threw
    log,        \* what the current top-level run has done so far, in order
    defines,    \* number of defineWorkflow calls made
    runs,       \* number of top-level run calls made
    session,    \* the defineWorkflow call whose build callback is at work, and
                \* the builder handle that callback may have kept
    request,    \* the execute request the HTTP surface is serving
    response,   \* the responses sent for that request, in order
    returned,   \* what the last registry get, has or list call returned
    parked      \* a second run call in progress, while the other takes steps

vars == <<callables, workflows, tools, apps, savers, stack, outcome, thrown, log,
          defines, runs, session, request, response, returned, parked>>

\* the HTTP exchange in progress
api == <<request, response>>

----------------------------------------------------------------------------
(* Bounds of the model *)

MaxDefines == 3
\* builder calls made by build callbacks, all defineWorkflow calls together
MaxCalls == 4
MaxRuns == 1
MaxReruns == 1
\* the step limit a deployment would like its runs to have
WantedLimit == 3

(* Program constants *)

\* configurable.thread_id that run passes to app.invoke
THREAD_ID == "trip-planning-session-1"
\* app.invoke is given no recursionLimit: the runtime's default applies
RecursionLimit == 25

START == "__start__"
END == "__end__"

NoError == "none"
Undefined == [kind |-> "undefined"]

----------------------------------------------------------------------------
(* Values, states and schemas *)

\* what a string-typed state field may hold
Scalars == {"yes", "no"}
\* a value that is not a string (fails z.string())
WrongType == "#number"

EmptyState == [f \in {} |-> "no"]

\* s restricted to the fields in keys
Restrict(s, keys) == [f \in (DOMAIN s) \cap keys |-> s[f]]

\* field-level replacement: a field of the update replaces the prior value
\* wholesale, the other fields keep theirs
MutMergeKeepPrior(s, u) == [f \in (DOMAIN s) \cup (DOMAIN u) |->
                               IF f \in DOMAIN s THEN s[f] ELSE u[f]]
Merge(s, u) == [f \in (DOMAIN s) \cup (DOMAIN u) |->
                   IF f \in DOMAIN u THEN u[f] ELSE s[f]]

SchemaKeys(schema) == schema.required \cup schema.optional

\* z.object(...).parse: every required key present, every present schema key
\* a string; unknown keys are stripped from the result
MutParseOkPresenceOnly(schema, input) == schema.required \subseteq DOMAIN input
ParseOk(schema, input) ==
    /\ schema.required \subseteq DOMAIN input
    /\ \A f \in (DOMAIN input) \cap SchemaKeys(schema) : input[f] \in Scalars
Parse(schema, input) == Restrict(input, SchemaKeys(schema))

----------------------------------------------------------------------------
(* Registries: a Map keeps its entries in insertion order *)

RegKeys(reg) == [i \in 1..Len(reg) |-> reg[i].key]
RegHas(reg, k) == \E i \in 1..Len(reg) : reg[i].key = k
RegGet(reg, k) ==
    IF RegHas(reg, k)
    THEN reg[CHOOSE i \in 1..Len(reg) : reg[i].key = k].val
    ELSE Undefined

\* a get, has or list call: what it returns and the registry after it
MutGetConstructs(reg, k) ==
    IF RegHas(reg, k) THEN [value |-> RegGet(reg, k), reg |-> reg]
    ELSE [value |-> Undefined, reg |-> Append(reg, [key |-> k, val |-> Undefined])]
Get(reg, k) == [value |-> RegGet(reg, k), reg |-> reg]
Has(reg, k) == [value |-> RegHas(reg, k), reg |-> reg]
List(reg) == [value |-> RegKeys(reg), reg |-> reg]

\* register: throws when the key is present, otherwise appends the entry
MutRegisterOverwrite(reg, k, v) ==
    [ok |-> TRUE,
     reg |-> IF RegHas(reg, k)
             THEN [i \in 1..Len(reg) |-> IF reg[i].key = k
                                         THEN [key |-> k, val |-> v] ELSE reg[i]]
             ELSE Append(reg, [key |-> k, val |-> v])]
MutRegisterKeepsFailed(reg, k, v) ==
    [ok |-> ~RegHas(reg, k), reg |-> Append(reg, [key |-> k, val |-> v])]
Register(reg, k, v) ==
    IF RegHas(reg, k)
    THEN [ok |-> FALSE, reg |-> reg]
    ELSE [ok |-> TRUE, reg |-> Append(reg, [key |-> k, val |-> v])]

----------------------------------------------------------------------------
(* Edge predicates and input mappings: the closures a workflow author passes *)

\* String.prototype.toLowerCase over the texts of the model: the texts with an
\* upper-case letter map to their lower-case form, the others are unchanged
ToLowerCase(v) ==
    CASE v = "YES" -> "yes"
      [] v = "Eyes open" -> "eyes open"
      [] OTHER -> v

\* String.prototype.includes("yes"): the texts that hold y, e, s in a row
IncludesYes(v) == v \in {"yes", "eyes open"}

\* (state.f ?? "").toLowerCase().includes("yes"), over the values of the model
MutContainsYesCaseSensitive(v) == IncludesYes(v)
ContainsYes(v) == IncludesYes(ToLowerCase(v))

Eq(f, v) == [kind |-> "eq", field |-> f, value |-> v]
Ne(f, v) == [kind |-> "ne", field |-> f, value |-> v]
Includes(f) == [kind |-> "includes", field |-> f, value |-> "yes"]
NotIncludes(f) == [kind |-> "notIncludes", field |-> f, value |-> "yes"]

\* e.when(state)
When(p, state) ==
    LET has == p.field \in DOMAIN state
    IN  CASE p.kind = "eq" -> has /\ state[p.field] = p.value
          [] p.kind = "ne" -> ~(has /\ state[p.field] = p.value)
          [] p.kind = "includes" -> has /\ ContainsYes(state[p.field])
          [] p.kind = "notIncludes" -> ~(has /\ ContainsYes(state[p.field]))

\* config.buildInput(state) of a workflow node
BuildInput(name, state) ==
    CASE name = "queryAsLocation" ->
             IF "userQuery" \in DOMAIN state
             THEN [f \in {"location"} |-> state["userQuery"]]
             ELSE EmptyState
      [] OTHER -> state

----------------------------------------------------------------------------
(* The graph under construction (StateGraph) and the builder DSL *)

NewGraph == [nodes |-> [n \in {} |-> Undefined],
             edges |-> << >>,
             branches |-> [n \in {} |-> Undefined]]

\* graph.addNode(config.id, handler), as every registration function calls it
MutGraphAddNodeReplaces(g, id, node) ==
    IF id \in {START, END}
    THEN [ok |-> FALSE, graph |-> g, error |-> "NodeAlreadyPresent"]
    ELSE [ok |-> TRUE, graph |-> [g EXCEPT !.nodes = (id :> node) @@ @],
          error |-> NoError]
GraphAddNode(g, id, node) ==
    IF id \in DOMAIN g.nodes \/ id \in {START, END}
    THEN [ok |-> FALSE, graph |-> g, error |-> "NodeAlreadyPresent"]
    ELSE [ok |-> TRUE, graph |-> [g EXCEPT !.nodes = @ @@ (id :> node)],
          error |-> NoError]

\* graph.addEdge(fromId, toId)
GraphAddEdge(g, fromId, toId) ==
    IF fromId = END \/ toId = START
    THEN [ok |-> FALSE, graph |-> g, error |-> "InvalidEdge"]
    ELSE [ok |-> TRUE, graph |-> [g EXCEPT !.edges = Append(@, <<fromId, toId>>)],
          error |-> NoError]

\* wf.addNode(id, nodeType, config): look the type up in the callable
\* registry, throw when it is absent, else run its registration function
MutAddNodeUnknownType(b, id, nodeType, config) ==
    LET registerFn == RegGet(callables, nodeType)
        node == [kind |-> IF registerFn = Undefined THEN "tool" ELSE registerFn.kind,
                 app |-> IF registerFn = Undefined THEN 0 ELSE registerFn.app,
                 targetKey |-> config.targetKey,
                 buildInput |-> config.buildInput]
        r == GraphAddNode(b.graph, id, node)
    IN  [ok |-> r.ok, graph |-> r.graph,
         conditionalEdges |-> b.conditionalEdges, error |-> r.error]
MutAddNodeResolvesLater(b, id, nodeType, config) ==
    LET registerFn == RegGet(callables, nodeType)
        node == [kind |-> IF registerFn = Undefined THEN "workflow"
                          ELSE registerFn.kind,
                 app |-> IF registerFn = Undefined THEN Len(apps) + 1
                         ELSE registerFn.app,
                 targetKey |-> config.targetKey,
                 buildInput |-> config.buildInput]
        r == GraphAddNode(b.graph, id, node)
    IN  [ok |-> r.ok, graph |-> r.graph,
         conditionalEdges |-> b.conditionalEdges, error |-> r.error]
AddNode(b, id, nodeType, config) ==
    LET registerFn == RegGet(callables, nodeType)
    IN  IF registerFn = Undefined
        THEN [ok |-> FALSE, graph |-> b.graph,
              conditionalEdges |-> b.conditionalEdges, error |-> "CallableNotFound"]
        ELSE LET node == [kind |-> registerFn.kind, app |-> registerFn.app,
                          targetKey |-> config.targetKey,
                          buildInput |-> config.buildInput]
                 r == GraphAddNode(b.graph, id, node)
             IN  [ok |-> r.ok, graph |-> r.graph,
                  conditionalEdges |-> b.conditionalEdges, error |-> r.error]

\* addEdgeToGraph: without options.when the edge goes into the graph now,
\* with it the edge is appended to the pending list
MutAddEdgeToGraphWiresAll(b, fromId, toId, when) ==
    LET r == GraphAddEdge(b.graph, fromId, toId)
    IN  IF when = Undefined
        THEN [ok |-> r.ok, graph |-> r.graph,
              conditionalEdges |-> b.conditionalEdges, error |-> r.error]
        ELSE [ok |-> r.ok, graph |-> r.graph,
              conditionalEdges |-> Append(b.conditionalEdges,
                                          [from |-> fromId, to |-> toId, when |-> when]),
              error |-> r.error]
AddEdgeToGraph(b, fromId, toId, when) ==
    IF when = Undefined
    THEN LET r == GraphAddEdge(b.graph, fromId, toId)
         IN  [ok |-> r.ok, graph |-> r.graph,
              conditionalEdges |-> b.conditionalEdges, error |-> r.error]
    ELSE [ok |-> TRUE, graph |-> b.graph,
          conditionalEdges |-> Append(b.conditionalEdges,
                                      [from |-> fromId, to |-> toId, when |-> when]),
          error |-> NoError]

\* the build callback: the builder calls of a script, in order; a throw ends it
RECURSIVE Build(_, _, _)
Build(b, ops, i) ==
    IF i > Len(ops) \/ ~b.ok THEN b
    ELSE LET o == ops[i]
         IN  Build(IF o.op = "addNode"
                   THEN AddNode(b, o.id, o.nodeType, o.config)
                   ELSE AddEdgeToGraph(b, o.from, o.to, o.when),
                   ops, i + 1)

----------------------------------------------------------------------------
(* finalizeConditionalEdges *)

\* the distinct elements of a list, in order of first occurrence
RECURSIVE Distinct(_)
MutDistinctFirstOnly(s) == SubSeq(s, 1, 1)
Distinct(s) ==
    IF s = << >> THEN << >>
    ELSE LET front == Distinct(SubSeq(s, 1, Len(s) - 1))
             last == s[Len(s)]
         IN  IF \E i \in 1..Len(front) : front[i] = last
             THEN front ELSE Append(front, last)

\* grouped.get(fromId): the pending edges of one source, in declaration order
MutEdgesFromFirstOnly(conditionalEdges, fromId) ==
    LET edges == SelectSeq(conditionalEdges, LAMBDA e : e.from = fromId)
    IN  SubSeq(edges, 1, 1)
EdgesFrom(conditionalEdges, fromId) ==
    SelectSeq(conditionalEdges, LAMBDA e : e.from = fromId)

\* the loop of routingFn: every edge's predicate is evaluated, a true one
\* pushes its target
RECURSIVE RoutingLoop(_, _, _, _)
MutRoutingLoopFirstMatch(edges, state, i, acc) ==
    IF i > Len(edges) \/ acc.matches # << >> THEN acc
    ELSE RoutingLoop(edges, state, i + 1,
                     [matches |-> IF When(edges[i].when, state)
                                  THEN Append(acc.matches, edges[i].to)
                                  ELSE acc.matches,
                      evaluated |-> acc.evaluated + 1])
RoutingLoop(edges, state, i, acc) ==
    IF i > Len(edges) THEN acc
    ELSE RoutingLoop(edges, state, i + 1,
                     [matches |-> IF When(edges[i].when, state)
                                  THEN Append(acc.matches, edges[i].to)
                                  ELSE acc.matches,
                      evaluated |-> acc.evaluated + 1])

\* routingFn(state): [] for no match, the target itself for one match, the
\* list of matches otherwise
MutRoutingFnDistinct(edges, state) ==
    LET r == RoutingLoop(edges, state, 1, [matches |-> << >>, evaluated |-> 0])
        matches == Distinct(r.matches)
    IN  IF Len(matches) = 0
        THEN [single |-> FALSE, targets |-> << >>, evaluated |-> r.evaluated]
        ELSE IF Len(matches) = 1
        THEN [single |-> TRUE, targets |-> <<matches[1]>>, evaluated |-> r.evaluated]
        ELSE [single |-> FALSE, targets |-> matches, evaluated |-> r.evaluated]
RoutingFn(edges, state) ==
    LET r == RoutingLoop(edges, state, 1, [matches |-> << >>, evaluated |-> 0])
    IN  IF Len(r.matches) = 0
        THEN [single |-> FALSE, targets |-> << >>, evaluated |-> r.evaluated]
        ELSE IF Len(r.matches) = 1
        THEN [single |-> TRUE, targets |-> <<r.matches[1]>>, evaluated |-> r.evaluated]
        ELSE [single |-> FALSE, targets |-> r.matches, evaluated |-> r.evaluated]

\* one graph.addConditionalEdges(fromId, routingFn, possibleTargets) per
\* source, sources in order of first occurrence
RECURSIVE AttachBranches(_, _, _, _)
AttachBranches(g, conditionalEdges, sources, i) ==
    IF i > Len(sources) THEN g
    ELSE LET fromId == sources[i]
             edges == EdgesFrom(conditionalEdges, fromId)
             possibleTargets == Distinct([k \in 1..Len(edges) |-> edges[k].to])
         IN  AttachBranches(
                 [g EXCEPT !.branches = @ @@ (fromId :>
                     [edges |-> edges, possibleTargets |-> possibleTargets])],
                 conditionalEdges, sources, i + 1)

FinalizeConditionalEdges(g, conditionalEdges) ==
    IF Len(conditionalEdges) = 0 THEN g
    ELSE AttachBranches(g, conditionalEdges,
             Distinct([k \in 1..Len(conditionalEdges) |-> conditionalEdges[k].from]), 1)

----------------------------------------------------------------------------
(* builder.compile({checkpointer: new MemorySaver()}) *)

EdgeSources(g) == {g.edges[i][1] : i \in 1..Len(g.edges)} \cup DOMAIN g.branches
EdgeTargets(g) ==
    {g.edges[i][2] : i \in 1..Len(g.edges)} \cup
    UNION {{g.branches[s].possibleTargets[k] :
               k \in 1..Len(g.branches[s].possibleTargets)} : s \in DOMAIN g.branches}

\* the validation compile runs on the graph
MutCompileErrorSourcesOnly(g) ==
    IF \E s \in EdgeSources(g) : s # START /\ s \notin DOMAIN g.nodes
    THEN "UnknownSourceNode"
    ELSE IF \E n \in DOMAIN g.nodes : n \notin EdgeTargets(g)
    THEN "UnreachableNode"
    ELSE NoError
MutCompileErrorMixed(g) ==
    IF \E s \in DOMAIN g.branches : \E i \in 1..Len(g.edges) : g.edges[i][1] = s
    THEN "MixedEdges"
    ELSE IF \E s \in EdgeSources(g) : s # START /\ s \notin DOMAIN g.nodes
    THEN "UnknownSourceNode"
    ELSE IF \E n \in DOMAIN g.nodes : n \notin EdgeTargets(g)
    THEN "UnreachableNode"
    ELSE IF \E t \in EdgeTargets(g) : t # END /\ t \notin DOMAIN g.nodes
    THEN "UnknownTargetNode"
    ELSE NoError
CompileError(g) ==
    IF \E s \in EdgeSources(g) : s # START /\ s \notin DOMAIN g.nodes
    THEN "UnknownSourceNode"
    ELSE IF \E n \in DOMAIN g.nodes : n \notin EdgeTargets(g)
    THEN "UnreachableNode"
    ELSE IF \E t \in EdgeTargets(g) : t # END /\ t \notin DOMAIN g.nodes
    THEN "UnknownTargetNode"
    ELSE NoError

----------------------------------------------------------------------------
(* The workflows that get defined: each is a defineWorkflow call, that is a *)
(* meta object and the builder calls of its build callback                  *)

NodeOp(id, nodeType, targetKey, buildInput) ==
    [op |-> "addNode", id |-> id, nodeType |-> nodeType,
     config |-> [targetKey |-> targetKey, buildInput |-> buildInput]]
EdgeOp(from, to) == [op |-> "addEdge", from |-> from, to |-> to, when |-> Undefined]
EdgeWhenOp(from, to, when) == [op |-> "addEdge", from |-> from, to |-> to, when |-> when]

WeatherKeys == {"location", "weatherText", "shopsRaw"}

\* weatherUmbrellaWorkflow
WeatherUmbrella ==
    [inputSchema |-> [required |-> {"location"}, optional |-> {}],
     stateKeys |-> WeatherKeys,
     ops |-> << NodeOp("weatherCheck", "agent", "weatherText", "none"),
                NodeOp("umbrellaShops", "agent", "shopsRaw", "none"),
                EdgeOp(START, "weatherCheck"),
                EdgeWhenOp("weatherCheck", "umbrellaShops", Includes("weatherText")),
                EdgeWhenOp("weatherCheck", END, NotIncludes("weatherText")),
                EdgeOp("umbrellaShops", END) >>]

\* locationWeatherWorkflow: a chain whose second node is the weather workflow
LocationWeather ==
    [inputSchema |-> [required |-> {}, optional |-> {"userQuery"}],
     stateKeys |-> WeatherKeys \cup {"userQuery"},
     ops |-> << NodeOp("getLocation", "location-tool", "location", "none"),
                NodeOp("checkWeather", "weather-umbrella", "", "none"),
                EdgeOp(START, "getLocation"),
                EdgeOp("getLocation", "checkWeather"),
                EdgeOp("checkWeather", END) >>]

\* a parent that stores the weather workflow's result under one key and maps
\* its own state to the child's input
TripPlanning ==
    [inputSchema |-> [required |-> {}, optional |-> {"userQuery"}],
     stateKeys |-> {"userQuery", "sub", "note"},
     ops |-> << NodeOp("weather", "weather-umbrella", "sub", "queryAsLocation"),
                NodeOp("wrapUp", "http-tool", "note", "none"),
                EdgeOp(START, "weather"),
                EdgeOp("weather", "wrapUp"),
                EdgeOp("wrapUp", END) >>]

\* conditional edges that may match together, alone or not at all, joined
\* again in one node
Parallel ==
    [inputSchema |-> [required |-> {}, optional |-> {"flagB"}],
     stateKeys |-> {"flagA", "flagB", "b", "c", "d"},
     ops |-> << NodeOp("nodeA", "http-tool", "flagA", "none"),
                NodeOp("nodeB", "http-tool", "b", "none"),
                NodeOp("nodeC", "http-tool", "c", "none"),
                NodeOp("nodeD", "http-tool", "d", "none"),
                NodeOp("nodeE", "http-tool", "b", "none"),
                EdgeOp(START, "nodeA"),
                EdgeWhenOp("nodeA", "nodeB", Eq("flagA", "yes")),
                EdgeWhenOp("nodeA", "nodeC", Eq("flagB", "yes")),
                EdgeWhenOp("nodeA", "nodeE", Eq("flagB", "no")),
                EdgeOp("nodeB", "nodeD"),
                EdgeOp("nodeC", "nodeD"),
                EdgeOp("nodeE", END),
                EdgeOp("nodeD", END) >>]

\* else-style fallback: check -> ok when the flag is set, check -> fail when not
CheckOkFail ==
    [inputSchema |-> [required |-> {}, optional |-> {"userQuery"}],
     stateKeys |-> {"userQuery", "flag", "okText", "failText"},
     ops |-> << NodeOp("check", "http-tool", "flag", "none"),
                NodeOp("ok", "http-tool", "okText", "none"),
                NodeOp("fail", "http-tool", "failText", "none"),
                EdgeOp(START, "check"),
                EdgeWhenOp("check", "ok", Eq("flag", "yes")),
                EdgeWhenOp("check", "fail", Ne("flag", "yes")),
                EdgeOp("ok", END),
                EdgeOp("fail", END) >>]

\* a feedback edge: ask routes back to itself until the answer is yes
AskAgain ==
    [inputSchema |-> [required |-> {}, optional |-> {"userQuery"}],
     stateKeys |-> {"userQuery", "answer"},
     ops |-> << NodeOp("ask", "agent", "answer", "none"),
                EdgeOp(START, "ask"),
                EdgeWhenOp("ask", "ask", NotIncludes("answer")),
                EdgeWhenOp("ask", END, Includes("answer")) >>]

\* two conditional edges from one source to one target, which may match
\* together, and a third edge to another target
SameTarget ==
    [inputSchema |-> [required |-> {}, optional |-> {"note"}],
     stateKeys |-> {"note", "flag", "out"},
     ops |-> << NodeOp("pick", "http-tool", "flag", "none"),
                NodeOp("done", "http-tool", "out", "none"),
                NodeOp("other", "agent", "out", "none"),
                EdgeOp(START, "pick"),
                EdgeWhenOp("pick", "done", Eq("flag", "yes")),
                EdgeWhenOp("pick", "done", Eq("note", "yes")),
                EdgeWhenOp("pick", "other", Eq("note", "no")),
                EdgeOp("done", END),
                EdgeOp("other", END) >>]

\* a build callback that adds a node of the workflow's own type
SelfNest ==
    [inputSchema |-> [required |-> {}, optional |-> {"userQuery"}],
     stateKeys |-> {"userQuery", "sub"},
     ops |-> << NodeOp("again", "self-nest", "sub", "none"),
                EdgeOp(START, "again"),
                EdgeOp("again", END) >>]

WorkflowIds == {"weather-umbrella", "location-weather", "trip-planning",
                "parallel", "check-ok-fail", "ask-again", "self-nest"}

Definition(id) ==
    CASE id = "weather-umbrella" -> WeatherUmbrella
      [] id = "location-weather" -> LocationWeather
      [] id = "trip-planning" -> TripPlanning
      [] id = "parallel" -> Parallel
      [] id = "check-ok-fail" -> CheckOkFail
      [] id = "ask-again" -> AskAgain
      [] id = "same-target" -> SameTarget
      [] id = "self-nest" -> SelfNest

\* the workflow modules, in the order the program imports them
ImportOrder == << "weather-umbrella", "location-weather", "trip-planning",
                  "parallel", "check-ok-fail", "ask-again" >>
\* of these, the ones workflows/index.ts exports: the first two
RepoWorkflows == 2

----------------------------------------------------------------------------
(* defineWorkflow *)

\* a registration function: the one a node module exports, or the one
\* createWorkflowRegistration makes around a compiled workflow
RegistrationFn(fn) == [kind |-> "tool", app |-> 0, fn |-> fn]
WorkflowRegistration(app) ==
    [kind |-> "workflow", app |-> app, fn |-> "createWorkflowRegistration"]

\* build(workflowBuilder), finalizeConditionalEdges and builder.compile: the
\* compiled workflow object, or the error thrown on the way
CompileBuilt(id, def, b) ==
    LET g == FinalizeConditionalEdges(b.graph, b.conditionalEdges)
    IN  IF ~b.ok THEN [ok |-> FALSE, error |-> b.error, workflow |-> Undefined]
        ELSE IF CompileError(g) # NoError
        THEN [ok |-> FALSE, error |-> CompileError(g), workflow |-> Undefined]
        ELSE [ok |-> TRUE, error |-> NoError,
              workflow |-> [id |-> id, inputSchema |-> def.inputSchema,
                            stateKeys |-> def.stateKeys, nodes |-> g.nodes,
                            edges |-> g.edges, branches |-> g.branches]]

NewBuilder == [ok |-> TRUE, graph |-> NewGraph, conditionalEdges |-> << >>,
               error |-> NoError]

CompileWorkflow(id) ==
    CompileBuilt(id, Definition(id), Build(NewBuilder, Definition(id).ops, 1))

\* defineWorkflow(meta, build): build and compile, then register the compiled
\* workflow in the workflow registry and, after that, its registration
\* function in the callable registry; any throw ends the call where it is
\* what defineWorkflow does with the outcome c of build, finalize and
\* compile: register the compiled workflow, then its node type
MutRegisterCompiledReplaces(id, c) ==
    LET app == Len(apps) + 1
        w == MutRegisterOverwrite(workflows, id, app)
        r == MutRegisterOverwrite(callables, id, WorkflowRegistration(app))
    IN  IF ~c.ok
        THEN /\ thrown' = c.error
             /\ UNCHANGED <<workflows, callables, apps, savers>>
        ELSE /\ workflows' = w.reg
             /\ apps' = Append(apps, c.workflow)
             /\ savers' = Append(savers, [t \in {} |-> EmptyState])
             /\ callables' = r.reg
             /\ thrown' = NoError
RegisterCompiled(id, c) ==
    LET app == Len(apps) + 1
           w == Register(workflows, id, app)
           r == Register(callables, id, WorkflowRegistration(app))
    IN  IF ~c.ok
        THEN /\ thrown' = c.error
             /\ UNCHANGED <<workflows, callables, apps, savers>>
        ELSE IF ~w.ok
        THEN /\ thrown' = "WorkflowAlreadyRegistered"
             /\ UNCHANGED <<workflows, callables, apps, savers>>
        ELSE /\ workflows' = w.reg
             /\ apps' = Append(apps, c.workflow)
             /\ savers' = Append(savers, [t \in {} |-> EmptyState])
             /\ callables' = r.reg
             /\ thrown' = IF r.ok THEN NoError ELSE "CallableAlreadyRegistered"

DefineWorkflow(id) ==
    /\ stack = << >>
    /\ defines' = defines + 1
    /\ RegisterCompiled(id, CompileWorkflow(id))
    /\ UNCHANGED <<tools, stack, outcome, log, runs, session,
                   api, returned, parked>>

----------------------------------------------------------------------------
(* compiledWorkflow.run and the runtime behind app.invoke *)

Top == stack[Len(stack)]
Depth == Len(stack)

\* the values the MemorySaver of an app holds for the thread id run uses
MutSavedOneStore(app) ==
    IF THREAD_ID \in DOMAIN savers[1] THEN savers[1][THREAD_ID] ELSE EmptyState
Saved(app) == IF THREAD_ID \in DOMAIN savers[app] THEN savers[app][THREAD_ID]
              ELSE EmptyState

\* a node writes the state channels only: other keys of its update are dropped
ChannelWrites(w, update) == Restrict(update, w.stateKeys)

\* the targets of the edges wired with graph.addEdge from node n
Unconditional(w, n) == {w.edges[i][2] : i \in {k \in 1..Len(w.edges) : w.edges[k][1] = n}}

\* what follows node n once it has produced its update: its unconditional
\* edges, and its routing function applied to the state with that update
NoRoute == [single |-> FALSE, targets |-> << >>, evaluated |-> 0]
Route(w, n, state) ==
    IF n \in DOMAIN w.branches THEN RoutingFn(w.branches[n].edges, state) ELSE NoRoute
MutResolvedNoMatchThrows(w, n, seen, update) ==
    LET state == Merge(seen, ChannelWrites(w, update))
        route == Route(w, n, state)
    IN  IF n \in DOMAIN w.branches /\ Len(route.targets) = 0
        THEN [ok |-> FALSE, update |-> update, error |-> "HandlerError", at |-> state,
              route |-> route, next |-> {}]
        ELSE [ok |-> TRUE, update |-> update, error |-> NoError, at |-> state,
              route |-> route,
              next |-> Unconditional(w, n) \cup
                       {route.targets[i] : i \in 1..Len(route.targets)}]
Resolved(w, n, seen, update) ==
    LET state == Merge(seen, ChannelWrites(w, update))
        route == Route(w, n, state)
    IN  [ok |-> TRUE, update |-> update, error |-> NoError, at |-> state,
         route |-> route,
         next |-> Unconditional(w, n) \cup
                  {route.targets[i] : i \in 1..Len(route.targets)}]
Rejected(error) ==
    [ok |-> FALSE, update |-> EmptyState, error |-> error, at |-> EmptyState,
     route |-> NoRoute, next |-> {}]

\* the update a workflow node returns from its child's final state
MutWorkflowNodeUpdateDirect(node, result) == result
WorkflowNodeUpdate(node, result) ==
    IF node.targetKey # "" THEN (node.targetKey :> result) ELSE result

\* app.invoke(parsed, {configurable: {thread_id}}): the thread's saved values
\* with the input written over them; the first step runs START
NewFrame(app, parsed, opened) ==
    [app |-> app,
     opened |-> opened,
     values |-> Merge(Saved(app), ChannelWrites(apps[app], parsed)),
     active |-> {START},
     writes |-> [n \in {} |-> NoRoute],
     step |-> 0,
     awaiting |-> ""]

\* the events of the log
\* a run call: ok says that the input parsed, tracer what became of the
\* new CallbackHandler(...) that follows the parse
RunEvent(app, depth, input, ok) ==
    [type |-> "run", app |-> app, depth |-> depth, input |-> input, ok |-> ok,
     tracer |-> IF ok THEN "made" ELSE "none"]
\* the state a task of the current step reads: the values as the step
\* before left them, whatever the other tasks of the step have returned
MutSeenSiblingWrites(frame) ==
    LET done == {n \in DOMAIN frame.writes : frame.writes[n].ok}
    IN  IF done = {} THEN frame.values
        ELSE Merge(frame.values,
                   ChannelWrites(apps[frame.app],
                                 frame.writes[CHOOSE n \in done : TRUE].update))
Seen(frame) == frame.values

InvokeEvent(frame, depth, node) ==
    [type |-> "invoke", app |-> frame.app, depth |-> depth, run |-> frame.opened,
     step |-> frame.step, node |-> node, seen |-> Seen(frame)]
ResultEvent(frame, depth, node, res) ==
    [type |-> "result", app |-> frame.app, depth |-> depth, run |-> frame.opened,
     step |-> frame.step, node |-> node, seen |-> Seen(frame),
     ok |-> res.ok, update |-> res.update, at |-> res.at, route |-> res.route,
     next |-> res.next]
CommitEvent(frame, depth, after, next) ==
    [type |-> "commit", app |-> frame.app, depth |-> depth, run |-> frame.opened,
     step |-> frame.step, ran |-> DOMAIN frame.writes,
     updates |-> [n \in DOMAIN frame.writes |-> frame.writes[n].update],
     before |-> frame.values, after |-> after, next |-> next]
EndEvent(frame, depth, ok, value, error) ==
    [type |-> "end", app |-> frame.app, depth |-> depth, run |-> frame.opened,
     ok |-> ok, value |-> value, error |-> error]

Pending == [status |-> "pending", app |-> 0, value |-> EmptyState, error |-> NoError]

\* run(input) called by the invocation surface on workflowRegistry.get(id):
\* inputSchema.parse first, and only then app.invoke
\* run takes the input only: app.invoke gets the thread id and the tracing
\* callback, nothing more
\* tracing says how the tracing collaborator behaves in this call: the
\* constructor runs between the parse and app.invoke, outside any try, so
\* what it throws leaves run; what the handler's callbacks throw during
\* app.invoke is caught by the callback manager
TracingModes == {"works", "callbackThrows", "constructorThrows"}
StartRun(id, input, tracing) ==
    /\ RegHas(workflows, id)
    /\ runs' = runs + 1
    /\ LET app == RegGet(workflows, id)
           w == apps[app]
       IN  IF ~ParseOk(w.inputSchema, input)
           THEN /\ outcome' = [status |-> "rejected", app |-> app,
                               value |-> EmptyState, error |-> "ZodError"]
                /\ log' = << RunEvent(app, 1, input, FALSE) >>
                /\ UNCHANGED <<stack, savers>>
           ELSE IF tracing = "constructorThrows"
           THEN /\ outcome' = [status |-> "rejected", app |-> app,
                               value |-> EmptyState, error |-> "TracingError"]
                /\ log' = << [RunEvent(app, 1, input, TRUE)
                                 EXCEPT !.tracer = "threw"] >>
                /\ UNCHANGED <<stack, savers>>
           ELSE LET frame == NewFrame(app, Parse(w.inputSchema, input), 1)
                IN  /\ stack' = << frame >>
                    /\ savers' = [savers EXCEPT ![app] = (THREAD_ID :> frame.values)]
                    /\ outcome' = [Pending EXCEPT !.app = app]
                    /\ log' = << [RunEvent(app, 1, input, TRUE)
                                     EXCEPT !.tracer =
                                         IF tracing = "callbackThrows"
                                         THEN "failing" ELSE "made"] >>
    /\ UNCHANGED <<callables, workflows, tools, apps, thrown, defines, session,
                   returned>>
RunWith(id, input, tracing) ==
    /\ stack = << >>
    /\ StartRun(id, input, tracing)
    /\ UNCHANGED parked
Run(id, input) == RunWith(id, input, "works")

\* a task of the current step that has not run yet
MutRunnableRetries(n) ==
    /\ stack # << >>
    /\ Top.awaiting = ""
    /\ n \in Top.active
    /\ n \in DOMAIN Top.writes => ~Top.writes[n].ok
Runnable(n) ==
    /\ stack # << >>
    /\ Top.awaiting = ""
    /\ n \in Top.active
    /\ n \notin DOMAIN Top.writes

Active == IF stack = << >> THEN {} ELSE Top.active

SetTop(frame) == [stack EXCEPT ![Len(stack)] = frame]

\* START carries no handler: control proceeds to its outbound edges
ProceedFromStart ==
    /\ Runnable(START)
    /\ LET res == Resolved(apps[Top.app], START, Seen(Top), EmptyState)
       IN  /\ stack' = SetTop([Top EXCEPT !.writes = @ @@ (START :> res)])
           /\ log' = Append(log, ResultEvent(Top, Depth, START, res))
    /\ UNCHANGED <<callables, workflows, tools, apps, savers, outcome, thrown,
                   defines, runs, session,
                   api, returned, parked>>

\* what the handler of a tool, agent or LLM node returns once its call gave
\* value: return {[config.targetKey]: value}
MutToolUpdateWholeState(node, state, value) ==
    Merge(state, (node.targetKey :> value))
ToolUpdate(node, state, value) == (node.targetKey :> value)

\* the handler of a tool, agent or LLM node: it reads the state, calls out,
\* and returns {[targetKey]: value}, or throws
ToolHandler(n, value) ==
    /\ Runnable(n)
    /\ n # START
    /\ LET w == apps[Top.app]
           node == w.nodes[n]
           res == IF value = "#throw" THEN Rejected("HandlerError")
                  ELSE Resolved(w, n, Seen(Top), ToolUpdate(node, Seen(Top), value))
       IN  /\ node.kind = "tool"
           /\ stack' = SetTop([Top EXCEPT !.writes = @ @@ (n :> res)])
           /\ log' = log \o << InvokeEvent(Top, Depth, n),
                               ResultEvent(Top, Depth, n, res) >>
    /\ UNCHANGED <<callables, workflows, tools, apps, savers, outcome, thrown,
                   defines, runs, session,
                   api, returned, parked>>

\* the input a workflow node passes to its child's run
MutChildInputState(node, state) == state
ChildInput(node, state) ==
    IF node.buildInput # "none" THEN BuildInput(node.buildInput, state) ELSE state

\* the handler of a workflow node, up to its await: it calls workflow.run,
\* which throws on invalid input and otherwise starts the child's app.invoke
WorkflowHandlerCall(n) ==
    /\ Runnable(n)
    /\ n # START
    /\ LET w == apps[Top.app]
           node == w.nodes[n]
           child == apps[node.app]
           input == ChildInput(node, Seen(Top))
       IN  /\ node.kind = "workflow"
           /\ IF ~ParseOk(child.inputSchema, input)
              THEN LET res == Rejected("ZodError")
                   IN  /\ stack' = SetTop([Top EXCEPT !.writes = @ @@ (n :> res)])
                       /\ log' = log \o
                            << InvokeEvent(Top, Depth, n),
                               RunEvent(node.app, Depth + 1, input, FALSE),
                               ResultEvent(Top, Depth, n, res) >>
                       /\ UNCHANGED savers
              ELSE LET frame == NewFrame(node.app, Parse(child.inputSchema, input),
                                          Len(log) + 2)
                   IN  /\ stack' = Append(SetTop([Top EXCEPT !.awaiting = n]), frame)
                       /\ savers' = [savers EXCEPT
                                        ![node.app] = (THREAD_ID :> frame.values)]
                       /\ log' = log \o
                            << InvokeEvent(Top, Depth, n),
                               RunEvent(node.app, Depth + 1, input, TRUE) >>
    /\ UNCHANGED <<callables, workflows, tools, apps, outcome, thrown, defines, runs,
                   session,
                   api, returned, parked>>


\* the updates of one step written to the state channels; the channels are
\* last-value channels, which take one write per step
RECURSIVE MergeAll(_, _, _)
MergeAll(w, state, writes) ==
    IF DOMAIN writes = {} THEN state
    ELSE LET n == CHOOSE m \in DOMAIN writes : TRUE
         IN  MergeAll(w, Merge(state, ChannelWrites(w, writes[n].update)),
                      [m \in (DOMAIN writes) \ {n} |-> writes[m]])

MutConflictNever(w, writes) == FALSE
Conflict(w, writes) ==
    \E n1, n2 \in DOMAIN writes :
        /\ n1 # n2
        /\ DOMAIN ChannelWrites(w, writes[n1].update)
             \cap DOMAIN ChannelWrites(w, writes[n2].update) # {}

MutNextActiveOne(writes) ==
    LET all == (UNION {writes[n].next : n \in DOMAIN writes}) \ {END}
    IN  IF all = {} THEN {} ELSE {CHOOSE n \in all : TRUE}
NextActive(writes) == (UNION {writes[n].next : n \in DOMAIN writes}) \ {END}

\* the handler of a workflow node after its await: the child's result makes
\* its update, the child's error is its own error
MutWorkflowHandlerSwallows(pw, n, seen, ok, value, error) ==
    Resolved(pw, n, seen, IF ok THEN WorkflowNodeUpdate(pw.nodes[n], value)
                          ELSE EmptyState)
WorkflowHandlerSettles(pw, n, seen, ok, value, error) ==
    IF ok THEN Resolved(pw, n, seen, WorkflowNodeUpdate(pw.nodes[n], value))
    ELSE Rejected(error)

\* app.invoke settles: the top-level run call settles with it, a nested one
\* settles the handler of the parent's workflow node that awaits it
MutFinishReturnsFailure(ok, value, error, events) ==
    IF Len(stack) = 1
    THEN /\ stack' = << >>
         /\ outcome' = [status |-> "resolved", app |-> Top.app,
                        value |-> IF ok THEN value ELSE ("error" :> error),
                        error |-> NoError]
         /\ log' = log \o events \o << EndEvent(Top, Depth, ok, value, error) >>
    ELSE LET parent == stack[Len(stack) - 1]
             n == parent.awaiting
             pw == apps[parent.app]
             res == WorkflowHandlerSettles(pw, n, Seen(parent), ok, value, error)
         IN  /\ stack' = Append(SubSeq(stack, 1, Len(stack) - 2),
                                [parent EXCEPT !.writes = @ @@ (n :> res),
                                               !.awaiting = ""])
             /\ outcome' = outcome
             /\ log' = log \o events \o
                    << EndEvent(Top, Depth, ok, value, error),
                       ResultEvent(parent, Depth - 1, n, res) >>
Finish(ok, value, error, events) ==
    IF Len(stack) = 1
    THEN /\ stack' = << >>
         /\ outcome' = [status |-> IF ok THEN "resolved" ELSE "rejected",
                        app |-> Top.app, value |-> value, error |-> error]
         /\ log' = log \o events \o << EndEvent(Top, Depth, ok, value, error) >>
    ELSE LET parent == stack[Len(stack) - 1]
             n == parent.awaiting
             pw == apps[parent.app]
             res == WorkflowHandlerSettles(pw, n, Seen(parent), ok, value, error)
         IN  /\ stack' = Append(SubSeq(stack, 1, Len(stack) - 2),
                                [parent EXCEPT !.writes = @ @@ (n :> res),
                                               !.awaiting = ""])
             /\ outcome' = outcome
             /\ log' = log \o events \o
                    << EndEvent(Top, Depth, ok, value, error),
                       ResultEvent(parent, Depth - 1, n, res) >>

\* the runtime's check before it prepares a step: the limit is passed
MutOutOfStepsNever(step) == FALSE
OutOfSteps(step) == step > RecursionLimit

MutStepDoneLeavesHung ==
    /\ stack # << >>
    /\ Top.active \ {Top.awaiting} = DOMAIN Top.writes
StepDone ==
    /\ stack # << >>
    /\ Top.awaiting = ""
    /\ Top.active = DOMAIN Top.writes

Failed == {n \in DOMAIN Top.writes : ~Top.writes[n].ok}

\* a handler of the step threw: app.invoke rejects with its error and the
\* step's updates are not written
StepFails ==
    /\ StepDone
    /\ \E n \in Failed : Finish(FALSE, EmptyState, Top.writes[n].error, << >>)
    /\ UNCHANGED <<callables, workflows, tools, apps, savers, thrown, defines, runs,
                   session,
                   api, returned, parked>>

\* two nodes of the step wrote the same channel: app.invoke rejects
StepConflicts ==
    /\ StepDone
    /\ Failed = {}
    /\ Conflict(apps[Top.app], Top.writes)
    /\ Finish(FALSE, EmptyState, "InvalidUpdateError", << >>)
    /\ UNCHANGED <<callables, workflows, tools, apps, savers, thrown, defines, runs,
                   session,
                   api, returned, parked>>

\* the step ends: its updates are written and checkpointed; then the run
\* stops with an error when the step limit is passed, ends when no node
\* follows, and otherwise goes on with the nodes that follow
StepCommits ==
    /\ StepDone
    /\ Failed = {}
    /\ ~Conflict(apps[Top.app], Top.writes)
    /\ LET w == apps[Top.app]
           after == MergeAll(w, Top.values, Top.writes)
           next == NextActive(Top.writes)
           commit == CommitEvent(Top, Depth, after, next)
       IN  /\ savers' = [savers EXCEPT ![Top.app] = (THREAD_ID :> after)]
           /\ IF OutOfSteps(Top.step + 1)
              THEN Finish(FALSE, EmptyState, "GraphRecursionError", << commit >>)
              ELSE IF next = {}
              THEN Finish(TRUE, after, NoError, << commit >>)
              ELSE /\ stack' = SetTop([Top EXCEPT !.values = after,
                                                  !.active = next,
                                                  !.writes = [n \in {} |-> NoRoute],
                                                  !.step = @ + 1])
                   /\ log' = Append(log, commit)
                   /\ outcome' = outcome
    /\ UNCHANGED <<callables, workflows, tools, apps, thrown, defines, runs, session,
                   api, returned, parked>>

----------------------------------------------------------------------------
(* The build callback at work: one action per builder call *)

\* no defineWorkflow call has been made through its callback yet
NoSession ==
    [status |-> "none", id |-> "", def |-> Undefined, builder |-> NewBuilder,
     calls |-> << >>, handles |-> << >>, invoked |-> << >>, app |-> 0,
     made |-> 0]

\* the workflows such callbacks define, in the order of the calls
SessionIds == <<"wf-a", "wf-b", "wf-c">>
SessionMeta ==
    [inputSchema |-> [required |-> {}, optional |-> {"flag"}],
     stateKeys |-> {"flag", "answer", "note"}]

\* the builder calls a callback may make
NodeCalls ==
    { NodeOp("n1", "http-tool", "flag", "none"),
      NodeOp("n1", "agent", "answer", "none"),
      NodeOp("n2", "agent", "note", "none"),
      NodeOp("n3", "ghost", "note", "none") }
EdgeCalls ==
    { EdgeOp(START, "n1"),
      EdgeOp("n1", END),
      EdgeOp("n2", END),
      EdgeWhenOp("n1", END, Ne("flag", "yes")),
      EdgeWhenOp("n1", "n2", Eq("flag", "yes")),
      EdgeWhenOp("n2", END, Eq("note", "yes")) }

\* defineWorkflow, up to the call of the build callback: a new graph and
\* a new, empty list of pending conditional edges
OpenDefine ==
    /\ stack = << >>
    /\ session.status # "building"
    /\ defines < Len(SessionIds)
    /\ defines' = defines + 1
    /\ session' = [NoSession EXCEPT !.status = "building",
                                    !.id = SessionIds[defines + 1],
                                    !.def = SessionMeta,
                                    !.made = session.made]
    /\ UNCHANGED <<callables, workflows, tools, apps, savers, stack, outcome, thrown,
                   log, runs,
                   api, returned, parked>>

\* the callback, or a holder of the builder handle after compile, went on
\* to make one more builder call: what the session records of it
Called(op, r, handle, fn) ==
    [session EXCEPT
        !.builder = [@ EXCEPT !.graph = r.graph,
                              !.conditionalEdges = r.conditionalEdges],
        !.calls = Append(@, [op |-> op, ok |-> r.ok, error |-> r.error,
                             late |-> session.status = "compiled"]),
        !.handles = IF handle = Undefined THEN @ ELSE Append(@, handle),
        !.invoked = IF fn = Undefined THEN @ ELSE Append(@, fn),
        !.made = @ + 1,
        !.status = IF r.ok \/ session.status = "compiled" THEN @ ELSE "failed"]

\* the compiled workflows once the builder call that led to session s
\* returned: compile attached the builder's nodes, edges and branches to the
\* compiled graph, which a later change of the builder does not reach
MutCompiledAfterFollows(s) ==
    IF s.status = "compiled"
    THEN [apps EXCEPT ![s.app] = [@ EXCEPT !.nodes = s.builder.graph.nodes,
                                           !.edges = s.builder.graph.edges]]
    ELSE apps
CompiledAfter(s) == apps

\* wf.addNode(id, nodeType, config) called on the handle
BuilderAddNode(op) ==
    /\ stack = << >>
    /\ session.status \in {"building", "compiled"}
    /\ session.made < MaxCalls
    /\ LET r == AddNode(session.builder, op.id, op.nodeType, op.config)
           registerFn == RegGet(callables, op.nodeType)
       IN  /\ session' = Called(op, r,
                                IF r.ok THEN [id |-> op.id] ELSE Undefined,
                                IF registerFn = Undefined THEN Undefined
                                ELSE [fn |-> registerFn.fn, id |-> op.id])
           /\ thrown' = r.error
    /\ apps' = CompiledAfter(session')
    /\ UNCHANGED <<callables, workflows, tools, savers, stack, outcome, log,
                   defines, runs,
                   api, returned, parked>>

\* wf.addEdge(from, to, options) called on the handle
BuilderAddEdge(op) ==
    /\ stack = << >>
    /\ session.status \in {"building", "compiled"}
    /\ session.made < MaxCalls
    /\ LET r == AddEdgeToGraph(session.builder, op.from, op.to, op.when)
       IN  /\ session' = Called(op, r, Undefined, Undefined)
           /\ thrown' = r.error
    /\ apps' = CompiledAfter(session')
    /\ UNCHANGED <<callables, workflows, tools, savers, stack, outcome, log,
                   defines, runs,
                   api, returned, parked>>

\* the callback returned: finalize, compile and register
CloseDefine ==
    /\ stack = << >>
    /\ session.status = "building"
    /\ LET c == CompileBuilt(session.id, session.def, session.builder)
       IN  /\ RegisterCompiled(session.id, c)
           /\ session' = [session EXCEPT
                             !.builder.graph =
                                 FinalizeConditionalEdges(@, session.builder.conditionalEdges),
                             !.status = IF c.ok THEN "compiled" ELSE "failed",
                             !.app = IF c.ok THEN Len(apps) + 1 ELSE 0]
    /\ UNCHANGED <<tools, stack, outcome, log, defines, runs,
                   api, returned, parked>>

----------------------------------------------------------------------------
(* Direct registrations, as the node and tool modules make when imported *)

CallableTypes == {"agent", "http-tool", "location-tool", "my-tool"}
NodeModules == {"registerAgentNode", "registerMyToolNode"}
ToolNames == {"llmNode", "myTool"}

CallableRegister(callableType, registerFn) ==
    /\ stack = << >>
    /\ LET r == Register(callables, callableType, registerFn)
       IN  /\ callables' = r.reg
           /\ thrown' = IF r.ok THEN NoError ELSE "CallableAlreadyRegistered"
    /\ UNCHANGED <<workflows, tools, apps, savers, stack, outcome, log, defines, runs,
                   session,
                   api, returned, parked>>

ToolRegister(name, tool) ==
    /\ stack = << >>
    /\ LET r == Register(tools, name, tool)
       IN  /\ tools' = r.reg
           /\ thrown' = IF r.ok THEN NoError ELSE "ToolAlreadyRegistered"
    /\ UNCHANGED <<callables, workflows, apps, savers, stack, outcome, log, defines,
                   runs, session,
                   api, returned, parked>>

\* no lookup was made yet; turn tells one lookup from the next
NoLookup == [op |-> "none", registry |-> "", key |-> "", value |-> Undefined, turn |-> 0]

\* the three registries by name
Registries == {"callable", "workflow", "tool"}
Registry(which) ==
    IF which = "callable" THEN callables
    ELSE IF which = "workflow" THEN workflows ELSE tools

\* a call of get, has or list on one of the registries, with its result r
Lookup(op, which, key, r) ==
    /\ stack = << >>
    /\ returned' = [op |-> op, registry |-> which, key |-> key, value |-> r.value,
                    turn |-> 1 - returned.turn]
    /\ callables' = IF which = "callable" THEN r.reg ELSE callables
    /\ workflows' = IF which = "workflow" THEN r.reg ELSE workflows
    /\ tools' = IF which = "tool" THEN r.reg ELSE tools
    /\ UNCHANGED <<apps, savers, stack, outcome, thrown, log, defines, runs, session,
                   api, parked>>

RegistryGet(which, key) == Lookup("get", which, key, Get(Registry(which), key))
RegistryHas(which, key) == Lookup("has", which, key, Has(Registry(which), key))
RegistryList(which) == Lookup("list", which, "", List(Registry(which)))

----------------------------------------------------------------------------
(* The specification *)

\* no execute request has been received
NoRequest == [status |-> "none", id |-> "", input |-> EmptyState, fields |-> Undefined]

\* the inputs a caller passes to run: any of the workflow's input fields,
\* absent, a string or not a string
InputValues == Scalars \cup {WrongType}
InputsOf(id) ==
    UNION {[d -> InputValues] : d \in SUBSET SchemaKeys(Definition(id).inputSchema)}
\* the same, and possibly a field the input schema does not declare
InputsWithExtra(id) ==
    UNION {[d -> InputValues] :
              d \in SUBSET (SchemaKeys(Definition(id).inputSchema) \cup {"extra"})}

\* no second run call is in progress
NoParked == [status |-> "none", stack |-> << >>, outcome |-> Pending, log |-> << >>]

\* the registries after the node modules were imported: agentNode, httpTool
\* and locationTool registered their node types, llmNode the LLM node tool
Init ==
    /\ callables =
         << [key |-> "agent", val |-> RegistrationFn("registerAgentNode")],
            [key |-> "http-tool", val |-> RegistrationFn("registerHttpToolNode")],
            [key |-> "location-tool", val |-> RegistrationFn("registerLocationToolNode")] >>
    /\ workflows = << >>
    /\ tools = << [key |-> "llmNode", val |-> "registerLlmNode"] >>
    /\ apps = << >>
    /\ savers = << >>
    /\ stack = << >>
    /\ outcome = Pending
    /\ thrown = NoError
    /\ log = << >>
    /\ defines = 0
    /\ runs = 0
    /\ session = NoSession
    /\ request = NoRequest
    /\ response = << >>
    /\ returned = NoLookup
    /\ parked = NoParked

\* importing the workflow modules defines the workflows one after the other
ImportWorkflows ==
    /\ defines < Len(ImportOrder)
    /\ DefineWorkflow(ImportOrder[defines + 1])

\* a caller runs a registered workflow once the imports are done
Request ==
    /\ defines = Len(ImportOrder)
    /\ runs < MaxRuns
    /\ \E id \in WorkflowIds : \E input \in InputsOf(id) : Run(id, input)
    /\ UNCHANGED api

\* the steps of the run in progress
RunSteps ==
    \/ ProceedFromStart
    \/ \E n \in Active, value \in Scalars \cup {"#throw"} : ToolHandler(n, value)
    \/ \E n \in Active : WorkflowHandlerCall(n)
    \/ StepFails
    \/ StepCommits

\* the program once started: the workflows are defined, then run on request
Next ==
    \/ ImportWorkflows
    \/ Request
    \/ RunSteps
    \/ StepConflicts

Spec == Init /\ [][Next]_vars

\* the same program with handlers that settle: app.invoke awaits each task
\* of a step and then goes on to close the step
SpecLive == Spec /\ WF_vars(RunSteps \/ StepConflicts)

\* the repository's own two workflows, run and run again on the same
\* compiled workflow objects
ImportRepoWorkflows ==
    /\ defines < RepoWorkflows
    /\ DefineWorkflow(ImportOrder[defines + 1])

RequestAgain ==
    /\ defines = RepoWorkflows
    /\ runs <= MaxReruns
    /\ \E i \in 1..RepoWorkflows :
           \E input \in InputsWithExtra(ImportOrder[i]) :
               Run(ImportOrder[i], input)
    /\ UNCHANGED api

NextRerun ==
    \/ ImportRepoWorkflows
    \/ RequestAgain
    \/ RunSteps

SpecRerun == Init /\ [][NextRerun]_vars

\* start-up wiring in any order: node types, tools and workflows registered
\* by whichever module is imported next
DefineAny ==
    /\ defines < MaxDefines
    /\ \E id \in WorkflowIds : DefineWorkflow(id)

\* the node types a module may register: callableRegistry.register takes
\* any string, the id of a workflow too
WiredTypes == CallableTypes \cup {"weather-umbrella"}

\* the module imported next registers its own function, whether the key is
\* free or taken
NextWiring ==
    \/ DefineAny
    \/ \E t \in WiredTypes : CallableRegister(t, RegistrationFn("registerMyToolNode"))
    \/ \E name \in ToolNames : ToolRegister(name, "registerMyTool")

SpecWiring == Init /\ [][NextWiring]_vars

\* the registries read while the modules are still being imported
LookupKeys == {"agent", "my-tool", "llmNode", "weather-umbrella", "ghost"}

NextLookup ==
    \/ ImportRepoWorkflows
    \/ \E t \in CallableTypes, fn \in NodeModules :
           CallableRegister(t, RegistrationFn(fn))
    \/ \E name \in ToolNames, tool \in {"registerLlmNode", "registerMyTool"} :
           ToolRegister(name, tool)
    \/ \E which \in Registries, key \in LookupKeys : RegistryGet(which, key)
    \/ \E which \in Registries, key \in LookupKeys : RegistryHas(which, key)
    \/ \E which \in Registries : RegistryList(which)

SpecLookup == Init /\ [][NextLookup]_vars

\* one run of a repository workflow with a tracing collaborator that may
\* fail, when constructed or when called
RequestTraced ==
    /\ defines = RepoWorkflows
    /\ runs < MaxRuns
    /\ \E i \in 1..RepoWorkflows :
           \E input \in InputsWithExtra(ImportOrder[i]) :
               \E tracing \in TracingModes : RunWith(ImportOrder[i], input, tracing)
    /\ UNCHANGED api

NextTraced ==
    \/ ImportRepoWorkflows
    \/ RequestTraced
    \/ RunSteps

SpecTraced == Init /\ [][NextTraced]_vars

----------------------------------------------------------------------------
(* A workflow with two conditional edges to one target *)

DefineSameTarget ==
    /\ defines = 0
    /\ DefineWorkflow("same-target")

RequestSameTarget ==
    /\ defines = 1
    /\ runs < MaxRuns
    /\ \E input \in InputsWithExtra("same-target") : Run("same-target", input)
    /\ UNCHANGED api

\* the workflow has no workflow node: its run takes the other steps
NextSameTarget ==
    \/ DefineSameTarget
    \/ RequestSameTarget
    \/ ProceedFromStart
    \/ \E n \in Active, value \in Scalars \cup {"#throw"} : ToolHandler(n, value)
    \/ StepFails
    \/ StepCommits
    \/ StepConflicts

SpecSameTarget == Init /\ [][NextSameTarget]_vars

----------------------------------------------------------------------------
(* Handlers that never settle *)

\* the handler of a tool, agent or LLM node is invoked and its promise never
\* settles: app.invoke, called without a timeout or an abort signal, awaits
\* it with the rest of the step
ToolHangs(n) ==
    /\ Runnable(n)
    /\ n # START
    /\ apps[Top.app].nodes[n].kind = "tool"
    /\ stack' = SetTop([Top EXCEPT !.awaiting = n])
    /\ log' = Append(log, InvokeEvent(Top, Depth, n))
    /\ UNCHANGED <<callables, workflows, tools, apps, savers, outcome, thrown,
                   defines, runs, session,
                   api, returned, parked>>

\* one run of a repository workflow
RequestRepo ==
    /\ defines = RepoWorkflows
    /\ runs < MaxRuns
    /\ \E i \in 1..RepoWorkflows :
           \E input \in InputsOf(ImportOrder[i]) : Run(ImportOrder[i], input)
    /\ UNCHANGED api

NextHang ==
    \/ ImportRepoWorkflows
    \/ RequestRepo
    \/ RunSteps
    \/ \E n \in Active : ToolHangs(n)

\* the runtime goes on whenever it can; whether a handler settles is up to
\* the handler
SpecHang == Init /\ [][NextHang]_vars /\ WF_vars(RunSteps)

----------------------------------------------------------------------------
(* Two run calls in progress at once *)

\* run is called on a compiled workflow while an earlier call of it awaits
\* a handler: the earlier call keeps its own app.invoke, with its channel
\* values, and waits for its turn; the new call parses its input and
\* starts an app.invoke of its own on the same checkpointer and thread id
RunOverlapping(input) ==
    /\ stack # << >>
    /\ parked.status = "none"
    /\ runs <= MaxRuns
    /\ parked' = [status |-> "parked", stack |-> stack, outcome |-> outcome,
                  log |-> log]
    /\ StartRun(apps[stack[1].app].id, input, "works")
    /\ UNCHANGED api

\* the call in progress awaits and the other goes on: one JavaScript
\* thread takes the steps of both, a handler's await at a time
Yield ==
    /\ parked.status = "parked"
    /\ stack' = parked.stack
    /\ outcome' = parked.outcome
    /\ log' = parked.log
    /\ parked' = [parked EXCEPT !.stack = stack, !.outcome = outcome, !.log = log]
    /\ UNCHANGED <<callables, workflows, tools, apps, savers, thrown, defines,
                   runs, session, api, returned>>

\* the weather workflow, which nests no other, is run, and run again while
\* the first call is in progress
RequestWeather ==
    /\ defines = RepoWorkflows
    /\ runs < MaxRuns
    /\ \E input \in InputsOf("weather-umbrella") : Run("weather-umbrella", input)
    /\ UNCHANGED api

NextOverlap ==
    \/ ImportRepoWorkflows
    \/ RequestWeather
    \/ \E input \in InputsOf("weather-umbrella") : RunOverlapping(input)
    \/ Yield
    \/ ProceedFromStart
    \/ \E n \in Active, value \in Scalars \cup {"#throw"} : ToolHandler(n, value)
    \/ StepFails
    \/ StepCommits

SpecOverlap == Init /\ [][NextOverlap]_vars

----------------------------------------------------------------------------
(* The weather workflow with a model that answers any text *)

\* what the model's answer, taken as a string, can be: the two answers the
\* prompt asks for, an answer in capitals, one that holds "yes" inside
\* another word, and one that holds no "yes"
Texts == Scalars \cup {"YES", "Eyes open", "maybe"}

\* the steps of a run of the weather workflow, whose nodes are LLM nodes
WeatherSteps ==
    \/ ProceedFromStart
    \/ \E n \in Active, value \in Texts \cup {"#throw"} : ToolHandler(n, value)
    \/ StepFails
    \/ StepCommits

NextWeather ==
    \/ ImportRepoWorkflows
    \/ RequestWeather
    \/ WeatherSteps

\* app.invoke awaits each handler and goes on to close the step
SpecWeather == Init /\ [][NextWeather]_vars /\ WF_vars(WeatherSteps)

----------------------------------------------------------------------------
(* The execute endpoint: POST /api/workflows/:id/execute *)

\* the fields member of a request body: left out, an array of field names,
\* or something that is not an array
NoFields == Undefined
FieldsArray(items) == [kind |-> "array", items |-> items]
FieldsOther == [kind |-> "string"]

\* for (const field of fields) if (field in result) filteredResult[field] =
\* result[field]
RECURSIVE FilterFields(_, _, _, _)
FilterFields(result, fields, i, filteredResult) ==
    IF i > Len(fields) THEN filteredResult
    ELSE FilterFields(result, fields, i + 1,
             IF fields[i] \in DOMAIN result
             THEN Merge(filteredResult, (fields[i] :> result[fields[i]]))
             ELSE filteredResult)

\* let filteredResult = result; if (fields && Array.isArray(fields) &&
\* fields.length > 0) the fields asked for are picked from the result
MutFilterFirstOnly(result, fields) ==
    IF fields.kind = "array" /\ Len(fields.items) > 0
    THEN FilterFields(result, SubSeq(fields.items, 1, 1), 1, EmptyState)
    ELSE result
Filter(result, fields) ==
    IF fields.kind = "array" /\ Len(fields.items) > 0
    THEN FilterFields(result, fields.items, 1, EmptyState)
    ELSE result

\* res.status(404).json({error, availableWorkflows: listWorkflows()})
NotFound(id) ==
    [status |-> 404,
     body |-> [error |-> "WorkflowNotFound", id |-> id,
               availableWorkflows |-> List(workflows).value]]

\* what the handler sends once run has settled: 200 with the id, the input
\* and the filtered result, or from the catch 400 with the error's message
MutAnswerAlwaysOk(req, o) ==
    [status |-> 200,
     body |-> [id |-> req.id, input |-> req.input,
               result |-> Filter(o.value, req.fields)]]
Answer(req, o) ==
    IF o.status = "resolved"
    THEN [status |-> 200,
          body |-> [id |-> req.id, input |-> req.input,
                    result |-> Filter(o.value, req.fields)]]
    ELSE [status |-> 400, body |-> [error |-> o.error]]

\* the handler up to its first await: const {fields, ...input} = req.body,
\* the lookup, and for an id that is not registered the 404; for a
\* registered one workflow.run(input) is called
Execute(id, fields, input) ==
    /\ stack = << >>
    /\ request.status # "pending"
    /\ runs < MaxRuns
    /\ IF ~RegHas(workflows, id)   \* get(id) gave undefined
       THEN /\ request' = [status |-> "answered", id |-> id, input |-> input,
                           fields |-> fields]
            /\ response' = << NotFound(id) >>
            /\ UNCHANGED <<callables, workflows, tools, apps, savers, stack,
                           outcome, thrown, log, defines, runs, session,
                           returned, parked>>
       ELSE /\ Run(id, input)
            /\ request' = [status |-> "pending", id |-> id, input |-> input,
                           fields |-> fields]
            /\ response' = << >>

\* run settled: the handler goes on after its await and answers
Respond ==
    /\ request.status = "pending"
    /\ stack = << >>
    /\ outcome.status # "pending"
    /\ response' = Append(response, Answer(request, outcome))
    /\ request' = [request EXCEPT !.status = "answered"]
    /\ UNCHANGED <<callables, workflows, tools, apps, savers, stack, outcome,
                   thrown, log, defines, runs, session, returned, parked>>

\* the ids and the bodies of the requests
RequestIds == {ImportOrder[i] : i \in 1..RepoWorkflows} \cup {"ghost"}
RequestFields ==
    {NoFields, FieldsOther, FieldsArray(<< >>), FieldsArray(<< "weatherText" >>),
     FieldsArray(<< "shopsRaw", "bogus", "location" >>)}
RequestInputs(id) ==
    IF id = "ghost" THEN {EmptyState} ELSE InputsOf(id)

\* the server: the workflow modules are imported, then requests are served
NextApi ==
    \/ ImportRepoWorkflows
    \/ /\ defines = RepoWorkflows
       /\ \E id \in RequestIds, fields \in RequestFields :
              \E input \in RequestInputs(id) : Execute(id, fields, input)
    \/ RunSteps
    \/ Respond

SpecApi == Init /\ [][NextApi]_vars
\* with handlers that settle and a handler that goes on after its await
SpecApiLive == SpecApi /\ WF_vars(RunSteps) /\ WF_vars(Respond)

\* workflows defined through build callbacks that make any builder calls in
\* any order
NextBuild ==
    \/ OpenDefine
    \/ \E op \in NodeCalls : BuilderAddNode(op)
    \/ \E op \in EdgeCalls : BuilderAddEdge(op)
    \/ CloseDefine

SpecBuild == Init /\ [][NextBuild]_vars

----------------------------------------------------------------------------
(* Reading the log and the declarations *)

Events(type) == {i \in 1..Len(log) : log[i].type = type}

\* the edges a defineWorkflow call declares from node n, as its build
\* callback wrote them
DeclaredOps(app) == Definition(apps[app].id).ops
DeclaredEdges(app) ==
    SelectSeq(DeclaredOps(app), LAMBDA o : o.op = "addEdge")
DeclaredConditional(app, n) ==
    SelectSeq(DeclaredEdges(app), LAMBDA o : o.when # Undefined /\ o.from = n)
DeclaredUnconditional(app, n) ==
    LET edges == DeclaredEdges(app)
    IN  {edges[i].to : i \in {k \in 1..Len(edges) :
                                 edges[k].when = Undefined /\ edges[k].from = n}}
DeclaredConfig(app, n) ==
    LET ops == DeclaredOps(app)
    IN  ops[CHOOSE i \in 1..Len(ops) : ops[i].op = "addNode" /\ ops[i].id = n].config
DeclaredType(app, n) ==
    LET ops == DeclaredOps(app)
    IN  ops[CHOOSE i \in 1..Len(ops) : ops[i].op = "addNode" /\ ops[i].id = n].nodeType

\* the positions of the declared edges whose predicate is true of state s
Matching(edges, s) == {i \in 1..Len(edges) : When(edges[i].when, s)}
\* the k-th smallest member of a set of positions
Kth(set, k) == CHOOSE i \in set : Cardinality({j \in set : j <= i}) = k
\* the targets of the matching edges, in declaration order
MatchedTargets(edges, s) ==
    LET matching == Matching(edges, s)
    IN  [k \in 1..Cardinality(matching) |-> edges[Kth(matching, k)].to]

\* the position of the run event that opened the run the event at position
\* i belongs to
RunOf(i) == log[i].run

\* the commits of the same run that precede position i
CommitsBefore(i) ==
    {c \in Events("commit") : c < i /\ log[c].run = log[i].run}
\* the commit that closed the step before the step of the event at i
LastCommitBefore(i) ==
    CHOOSE c \in Events("commit") :
        log[c].run = log[i].run /\ log[c].step = log[i].step - 1

\* the results of the step that the commit at position c closes
ResultsOf(c) ==
    {r \in Events("result") : log[r].run = log[c].run /\ log[r].step = log[c].step}

----------------------------------------------------------------------------
(* C1 *)

\* C1: whenever a node with conditional edges has produced its update, the
\* routing function of that node has evaluated the predicate of every edge
\* declared from it and has returned exactly the targets of the edges whose
\* predicate is true of the state, in declaration order: nothing for no
\* match, the one target itself for one match, the list for several.
C1_RoutingYieldsMatches ==
    \A i \in Events("result") :
        LET e == log[i]
            edges == DeclaredConditional(e.app, e.node)
        IN  (e.ok /\ Len(edges) > 0) =>
                /\ e.route.evaluated = Len(edges)
                /\ e.route.targets = MatchedTargets(edges, e.at)
                /\ e.route.single = (Cardinality(Matching(edges, e.at)) = 1)

\* a routing call with three edges of which the first and the third match
C1_Witness ==
    \E i \in Events("result") :
        /\ log[i].ok
        /\ Len(DeclaredConditional(log[i].app, log[i].node)) = 3
        /\ log[i].route.targets = << "nodeB", "nodeE" >>

----------------------------------------------------------------------------
(* C2 *)

Range(s) == {s[i] : i \in 1..Len(s)}

\* the state a node's edges are decided on: the state it saw with its own
\* update written over it
DecidedOn(app, seen, update) ==
    Merge(seen, Restrict(update, Definition(apps[app].id).stateKeys))

\* the nodes the declared edges of the node of result event r lead to
Follows(r) ==
    LET e == log[r]
    IN  DeclaredUnconditional(e.app, e.node) \cup
        Range(MatchedTargets(DeclaredConditional(e.app, e.node),
                             DecidedOn(e.app, e.seen, e.update)))

\* the nodes invoked in the run of position i, at its depth, in order
InvokedIn(i) ==
    LET own == SelectSeq([k \in 1..Len(log) |-> [at |-> k, e |-> log[k]]],
                         LAMBDA x : /\ x.e.type = "invoke"
                                    /\ x.e.run = RunOf(i)
                                    /\ x.at < i)
    IN  [k \in 1..Len(own) |-> own[k].e.node]

\* C2: in any run, the nodes active in a step are exactly the targets the
\* nodes of the step before lead to: the target of every unconditional edge
\* and, for a source with conditional edges, the targets of the edges whose
\* predicate is true (one, several, or none), and no other node; every node
\* that became active executes before any node of the step after it, so all
\* matched targets have executed when the node that joins them starts.  With
\* check -> ok when the flag is set and check -> fail when it is not, a run
\* that sets the flag executes check, then ok, then ends, and never fail.
C2_MatchedTargetsBecomeActive ==
    /\ \A c \in Events("commit") :
          LET results == ResultsOf(c)
              earlier == CommitsBefore(c)
          IN
          /\ log[c].next = (UNION {Follows(r) : r \in results}) \ {END}
          /\ log[c].ran = {log[r].node : r \in results}
          /\ log[c].step = Cardinality(earlier)
          /\ \A r \in results : r < c /\ \A q \in earlier : q < r
          /\ log[c].ran = IF log[c].step = 0 THEN {START}
                          ELSE log[LastCommitBefore(c)].next
    /\ \A i \in Events("invoke") :
          /\ log[i].step > 0
          /\ LastCommitBefore(i) < i
          /\ log[i].node \in log[LastCommitBefore(i)].next
          /\ \A j \in 1..(i - 1) :
                (log[j].type = "invoke" /\ RunOf(j) = RunOf(i)
                   /\ log[j].node = log[i].node)
                => log[j].step < log[i].step
    /\ \A x \in Events("end") :
          (/\ apps[log[x].app].id = "check-ok-fail"
           /\ log[x].ok
           /\ "flag" \in DOMAIN log[x].value
           /\ log[x].value["flag"] = "yes")
          => InvokedIn(x) = << "check", "ok" >>

\* two conditional edges of nodeA matched, both targets ran in one step, and
\* the node joining them ran in the step after
C2_Witness ==
    \E c, d \in Events("commit") :
        /\ apps[log[c].app].id = "parallel"
        /\ log[c].ran = {"nodeB", "nodeC"}
        /\ d > c
        /\ log[d].ran = {"nodeD"}

----------------------------------------------------------------------------
(* C3 *)

\* the workflow of an app declares unconditional edges only, one out of
\* START and one out of every node
IsChain(app) ==
    /\ \A i \in 1..Len(DeclaredEdges(app)) : DeclaredEdges(app)[i].when = Undefined
    /\ \A n \in {START} \cup DOMAIN apps[app].nodes :
          Cardinality(DeclaredUnconditional(app, n)) = 1

\* the nodes of a chain from node n on, in the order of the edges
RECURSIVE ChainFrom(_, _)
ChainFrom(app, n) ==
    IF n = END THEN << >>
    ELSE << n >> \o ChainFrom(app, CHOOSE m \in DeclaredUnconditional(app, n) : TRUE)
ChainOrder(app) == ChainFrom(app, CHOOSE m \in DeclaredUnconditional(app, START) : TRUE)

\* the update the node n returned in the run that ends at position x
UpdateOf(x, n) ==
    log[CHOOSE r \in Events("result") :
            /\ log[r].run = RunOf(x)
            /\ log[r].node = n].update

\* the updates of the nodes in order merged one after the other into s
RECURSIVE MergedInOrder(_, _, _, _)
MergedInOrder(x, order, i, s) ==
    IF i > Len(order) THEN s
    ELSE MergedInOrder(x, order, i + 1,
             Merge(s, Restrict(UpdateOf(x, order[i]),
                               Definition(apps[log[x].app].id).stateKeys)))

\* C3: for a graph with only unconditional edges forming a chain from START
\* to END, a run that completes has executed every node's handler exactly
\* once, in the order of the chain, and returns the validated input with
\* the nodes' updates merged in, in that order.
C3_ChainRunsInOrder ==
    \A x \in Events("end") :
        (log[x].ok /\ IsChain(log[x].app)) =>
            /\ InvokedIn(x) = ChainOrder(log[x].app)
            /\ log[x].value =
                 MergedInOrder(x, ChainOrder(log[x].app), 1,
                     Parse(apps[log[x].app].inputSchema, log[RunOf(x)].input))

----------------------------------------------------------------------------
(* C4 *)

\* the fields of the state that the nodes of the step of commit c wrote
Written(c, n) ==
    DOMAIN Restrict(log[c].updates[n], Definition(apps[log[c].app].id).stateKeys)

\* C4: merging a node's update into the running state replaces field by
\* field: a field present in the update holds the update's value, whole,
\* after the merge; a field absent from it holds the value it had before;
\* no field appears or disappears otherwise; and the merged state is the
\* state the nodes of the next step see.
C4_MergeReplacesFields ==
    /\ \A c \in Events("commit") :
          LET e == log[c]
              written == UNION {Written(c, n) : n \in e.ran}
          IN  /\ DOMAIN e.after = (DOMAIN e.before) \cup written
              /\ \A n \in e.ran : \A f \in Written(c, n) :
                    e.after[f] = e.updates[n][f]
              /\ \A f \in (DOMAIN e.before) \ written : e.after[f] = e.before[f]
    /\ \A i \in Events("invoke") :
          log[i].step > 0 => log[i].seen = log[LastCommitBefore(i)].after

\* an update replaced the value of a field that had another value while a
\* field it does not mention kept its value
C4_Witness ==
    \E c \in Events("commit") :
        \E n \in log[c].ran : \E f \in Written(c, n) : \E g \in DOMAIN log[c].before :
            /\ f \in DOMAIN log[c].before
            /\ log[c].before[f] # log[c].updates[n][f]
            /\ log[c].after[f] = log[c].updates[n][f]
            /\ g \notin Written(c, n)
            /\ log[c].after[g] = log[c].before[g]

----------------------------------------------------------------------------
(* C5 *)

\* the input does not satisfy the input schema the workflow declares
Invalid(app, input) ==
    LET schema == Definition(apps[app].id).inputSchema
    IN  \/ \E f \in schema.required : f \notin DOMAIN input
        \/ \E f \in (schema.required \cup schema.optional) \cap DOMAIN input :
              input[f] = WrongType

\* C5: run validates its input before anything else.  A run call whose input
\* fails the input schema invokes no node handler and not the graph, leaves
\* every checkpoint as it was, and gives its caller the validation error; a
\* run call whose input satisfies the schema goes on to invoke the graph.
C5_InvalidInputRunsNothing ==
    [][runs' = runs + 1 =>
          LET e == log'[1]
          IN  /\ e.type = "run" /\ e.depth = 1
              /\ e.ok = ~Invalid(e.app, e.input)
              /\ Invalid(e.app, e.input) =>
                    /\ Len(log') = 1
                    /\ stack' = << >>
                    /\ savers' = savers
                    /\ outcome'.status = "rejected"
                    /\ outcome'.error = "ZodError"
              /\ ~Invalid(e.app, e.input) =>
                    /\ stack' # << >>
                    /\ outcome'.status = "pending"]_vars

\* a run with invalid input was rejected while the workflow's checkpoint
\* held the state of an earlier run
C5_Witness ==
    /\ Len(log) = 1
    /\ ~log[1].ok
    /\ Invalid(log[1].app, log[1].input)
    /\ outcome.error = "ZodError"
    /\ Saved(log[1].app) # EmptyState

----------------------------------------------------------------------------
(* C6 *)

\* a registry after a step: what it was, or that with one entry more whose
\* key it did not hold
GrewByNewKey(before, after) ==
    \/ after = before
    \/ /\ Len(after) = Len(before) + 1
       /\ SubSeq(after, 1, Len(before)) = before
       /\ ~RegHas(before, after[Len(after)].key)

\* C6: in each of the three registries, a register call with a key that is
\* present throws and leaves the registry as it was; a step never removes
\* or replaces an entry, so every key keeps the first handler registered
\* under it.
C6_DuplicateRegistrationRejected ==
    [][/\ GrewByNewKey(callables, callables')
       /\ GrewByNewKey(workflows, workflows')
       /\ GrewByNewKey(tools, tools')
       /\ \A k \in CallableTypes, fn \in NodeModules :
             (RegHas(callables, k) /\ CallableRegister(k, RegistrationFn(fn)))
             => (callables' = callables /\ thrown' # NoError)
       /\ \A k \in ToolNames, tool \in {"registerLlmNode", "registerMyTool"} :
             (RegHas(tools, k) /\ ToolRegister(k, tool))
             => (tools' = tools /\ thrown' # NoError)
       /\ \A id \in WorkflowIds :
             (RegHas(workflows, id) /\ DefineWorkflow(id))
             => (workflows' = workflows /\ callables' = callables
                 /\ thrown' # NoError)]_vars

\* a register call threw for a key that was present, and the key still maps
\* to the handler that was registered first
C6_Witness ==
    /\ thrown \in {"CallableAlreadyRegistered", "ToolAlreadyRegistered",
                   "WorkflowAlreadyRegistered"}
    /\ RegGet(callables, "agent") = RegistrationFn("registerAgentNode")
    /\ RegGet(tools, "llmNode") = "registerLlmNode"

----------------------------------------------------------------------------
(* C7 *)

\* the steps the run of the event at position x has completed
StepsOf(x) == Cardinality(CommitsBefore(x))

\* C7 as the specification states it: a run stops after the maximum number
\* of steps that was configured for it, WantedLimit steps after the step of
\* START, and reports StepLimitExceeded.
C7_StoppedAtConfiguredLimit ==
    log # << >> =>
        /\ Cardinality({c \in Events("commit") : log[c].depth = 1}) <= WantedLimit + 1
        /\ outcome.error \in {NoError, "ZodError", "HandlerError",
                              "InvalidUpdateError", "StepLimitExceeded"}

\* C7, amended: a run whose routing keeps leading back does not run forever.
\* run passes no limit on, so whatever limit is wanted the run is stopped by
\* the runtime's default limit, RecursionLimit steps after the step of
\* START, and is rejected with the runtime's GraphRecursionError.
C7_StoppedAtDefaultLimit ==
    /\ \A k \in 1..Len(stack) : stack[k].step <= RecursionLimit
    /\ \A x \in Events("end") : StepsOf(x) <= RecursionLimit + 1
    /\ \A x \in Events("end") :
          (log[x - 1].type = "commit" /\ log[x - 1].depth = log[x].depth) =>
              IF StepsOf(x) = RecursionLimit + 1
              THEN ~log[x].ok /\ log[x].error = "GraphRecursionError"
              ELSE log[x].ok
    /\ (outcome.status = "rejected" /\ outcome.error = "GraphRecursionError") =>
          \E x \in Events("end") : StepsOf(x) = RecursionLimit + 1

\* a run went round its feedback edge, past WantedLimit steps, until the
\* default limit stopped it
C7_Witness ==
    /\ outcome.status = "rejected"
    /\ outcome.error = "GraphRecursionError"
    /\ RecursionLimit > WantedLimit
    /\ Cardinality({i \in Events("invoke") : log[i].node = "ask"}) = RecursionLimit

----------------------------------------------------------------------------
(* C8 *)

\* the node of the event at position i is declared with a workflow's id as
\* its type
IsWorkflowNode(i) ==
    /\ log[i].node # START
    /\ DeclaredType(log[i].app, log[i].node) \in WorkflowIds

\* the commit that closes the step of the result event at position r
CommitOf(r) ==
    {c \in Events("commit") : log[c].run = log[r].run /\ log[c].step = log[r].step}

\* C8: the update a workflow node produces is the child's final state under
\* targetKey when targetKey is configured, and the child's final state
\* itself otherwise; when the step ends every field of that update holds
\* the update's value in the parent state.
C8_ChildStateUnderTargetKey ==
    \A r \in Events("result") :
        (log[r].ok /\ IsWorkflowNode(r)) =>
            LET child == log[r - 1]
                targetKey == DeclaredConfig(log[r].app, log[r].node).targetKey
            IN  /\ child.type = "end" /\ child.ok
                /\ child.depth = log[r].depth + 1
                /\ log[r].update = IF targetKey # ""
                                   THEN [f \in {targetKey} |-> child.value]
                                   ELSE child.value
                /\ \A c \in CommitOf(r) : \A f \in DOMAIN log[r].update :
                      /\ f \in DOMAIN log[c].after
                      /\ log[c].after[f] = log[r].update[f]

\* the parent state holds the child's final state, whole, under the key sub
C8_Witness ==
    \E r \in Events("result") : \E c \in CommitOf(r) :
        /\ log[r].ok
        /\ IsWorkflowNode(r)
        /\ DOMAIN log[r].update = {"sub"}
        /\ log[c].after["sub"] = log[r - 1].value
        /\ DOMAIN log[r - 1].value # {}

----------------------------------------------------------------------------
(* C9 *)

\* the end of the child run that the run event at position q opened, if it
\* has ended
EndOfRun(q) == {x \in Events("end") : log[x].run = q}

\* C9: a workflow node calls the child's run with buildInput of the state it
\* sees when buildInput is configured and with that state otherwise; the
\* child runs its own graph against its own checkpoint store, which leaves
\* the checkpoint of every run that waits for it as it was; and until the
\* child run has ended the parent writes no update and starts no successor.
C9_ChildRunsToCompletion ==
    /\ \A q \in Events("run") :
          log[q].depth > 1 =>
              LET call == log[q - 1]
                  config == DeclaredConfig(call.app, call.node)
              IN  /\ call.type = "invoke"
                  /\ call.depth = log[q].depth - 1
                  /\ IsWorkflowNode(q - 1)
                  /\ log[q].app = RegGet(workflows, DeclaredType(call.app, call.node))
                  /\ log[q].app # call.app
                  /\ log[q].input = IF config.buildInput # "none"
                                    THEN BuildInput(config.buildInput, call.seen)
                                    ELSE call.seen
                  /\ \A p \in (q + 1)..Len(log) :
                        (log[q].ok /\ \A x \in EndOfRun(q) : p < x) =>
                            /\ log[p].depth = log[q].depth
                            /\ log[p].app = log[q].app
                            /\ log[p].type \in {"invoke", "result"} =>
                                  log[p].node \in {START} \cup DOMAIN apps[log[q].app].nodes
                  /\ (log[q].ok /\ EndOfRun(q) = {}) =>
                        /\ Len(stack) = log[q].depth
                        /\ stack[log[q].depth - 1].awaiting = call.node
    /\ \A i \in Events("invoke") :
          (IsWorkflowNode(i) /\ i < Len(log)) =>
              log[i + 1].type = "run" /\ log[i + 1].depth = log[i].depth + 1
    /\ \A k \in 1..Len(stack) :
          /\ Saved(stack[k].app) = stack[k].values
          /\ \A j \in 1..Len(stack) : j # k => stack[j].app # stack[k].app

\* a child that was given the input its parent's buildInput made of the
\* parent's state is running, and has written its own checkpoint, while the
\* parent waits
C9_Witness ==
    /\ Len(stack) = 2
    /\ stack[1].awaiting = "weather"
    /\ stack[2].step > 0
    /\ Saved(stack[2].app) # Saved(stack[1].app)
    /\ \E q \in Events("run") :
          /\ log[q].depth = 2
          /\ log[q].input = [f \in {"location"} |-> log[q - 1].seen["userQuery"]]

----------------------------------------------------------------------------
(* C10 *)

\* the positions where a nested child run failed: its input was refused, or
\* its graph ended with an error
ChildFailures ==
    {x \in 1..Len(log) :
        /\ log[x].type \in {"run", "end"}
        /\ log[x].depth > 1
        /\ ~log[x].ok}

\* C10: when a nested child run fails, on its input or in a handler, the
\* parent node fails with the child's error: the node returns no update,
\* the parent's step is not written, no successor of the node is invoked,
\* and the parent run is rejected.
C10_ChildFailureFailsParent ==
    \A x \in ChildFailures :
        /\ x < Len(log)
        /\ log[x + 1].type = "result"
        /\ log[x + 1].depth = log[x].depth - 1
        /\ IsWorkflowNode(x + 1)
        /\ ~log[x + 1].ok
        /\ log[x + 1].update = EmptyState
        /\ log[x + 1].next = {}
        /\ \A p \in (x + 2)..Len(log) :
              /\ log[p].type = "end"
              /\ ~log[p].ok
              /\ log[p].depth < log[x].depth
        /\ stack = << >> =>
              /\ outcome.status = "rejected"
              /\ outcome.error # NoError
              /\ log[Len(log)].type = "end"
              /\ Saved(log[1].app) =
                    LET own == {c \in Events("commit") : log[c].depth = 1}
                    IN  IF own = {} THEN log[2].seen
                        ELSE log[CHOOSE c \in own : \A d \in own : d <= c].after

\* a handler of the child threw, and the parent run was rejected with that
\* error after steps of its own
C10_Witness ==
    /\ stack = << >>
    /\ outcome.status = "rejected"
    /\ outcome.error = "HandlerError"
    /\ \E x \in ChildFailures : log[x].type = "end" /\ log[x].error = "HandlerError"
    /\ \E c \in Events("commit") : log[c].depth = 1

----------------------------------------------------------------------------
(* Build callbacks *)

\* the builder calls the callback made before it returned, and those among
\* them that returned
BuildCalls == {i \in 1..Len(session.calls) : ~session.calls[i].late}
Returned == {i \in BuildCalls : session.calls[i].ok}
NodesAdded == {session.calls[i].op.id : i \in {j \in Returned : session.calls[j].op.op = "addNode"}}
EdgesDeclared == {i \in Returned : session.calls[i].op.op = "addEdge"}
PlainFrom(s) ==
    {i \in EdgesDeclared : session.calls[i].op.from = s /\ session.calls[i].op.when = Undefined}
WhenFrom(s) ==
    {i \in EdgesDeclared : session.calls[i].op.from = s /\ session.calls[i].op.when # Undefined}
MixedSources == {s \in NodesAdded \cup {START} : PlainFrom(s) # {} /\ WhenFrom(s) # {}}
\* defineWorkflow returned or threw
Closed == session.status \in {"compiled", "failed"}
\* every declared edge joins nodes of the graph, every node is some edge's target
Dangling ==
    {i \in EdgesDeclared : \/ session.calls[i].op.from \notin NodesAdded \cup {START}
                           \/ session.calls[i].op.to \notin NodesAdded \cup {END}}
Orphans == {n \in NodesAdded : \A i \in EdgesDeclared : session.calls[i].op.to # n}

\* C11 as stated: a build that gives one source node both an unconditional
\* and a conditional edge is rejected, defineWorkflow fails and nothing is
\* compiled or registered
C11_MixedSourceRejected ==
    (Closed /\ MixedSources # {}) =>
        /\ session.status = "failed"
        /\ ~RegHas(workflows, session.id)

\* C11 amended: such a build is not rejected for that reason; when all its
\* builder calls returned, its edges join nodes of the graph and every node
\* is an edge's target, the workflow is compiled and registered with the
\* unconditional edges in the graph and the source's conditional edges, in
\* declaration order, behind its routing function
C11_MixedSourceAccepted ==
    (Closed /\ MixedSources # {} /\ Returned = BuildCalls /\ Dangling = {} /\ Orphans = {}) =>
        /\ session.status = "compiled"
        /\ RegGet(workflows, session.id) = session.app
        /\ \A s \in MixedSources :
              LET w == apps[session.app]
                  declared == SelectSeq(session.calls,
                                  LAMBDA c : /\ ~c.late /\ c.ok /\ c.op.op = "addEdge"
                                             /\ c.op.from = s /\ c.op.when # Undefined)
              IN  /\ \A i \in PlainFrom(s) :
                        \E k \in 1..Len(w.edges) :
                            w.edges[k] = <<s, session.calls[i].op.to>>
                  /\ s \in DOMAIN w.branches
                  /\ w.branches[s].edges =
                        [k \in 1..Len(declared) |->
                            [from |-> s, to |-> declared[k].op.to,
                             when |-> declared[k].op.when]]

\* a build with n1 -> END declared both plainly and under a condition, in
\* either order, compiled and registered
C11_Witness ==
    /\ session.status = "compiled"
    /\ "n1" \in MixedSources
    /\ RegHas(workflows, session.id)
    /\ \E i \in PlainFrom("n1"), j \in WhenFrom("n1") : j < i

\* the conditional edges this defineWorkflow call was asked for, in order
WhenCalls ==
    SelectSeq(session.calls, LAMBDA c : c.op.op = "addEdge" /\ c.op.when # Undefined)
\* the step is one addEdge call on the handle
AddEdgeStep ==
    /\ session'.made = session.made + 1
    /\ session'.calls[Len(session'.calls)].op.op = "addEdge"
LastOp == session'.calls[Len(session'.calls)].op

\* C12: addEdge without options.when puts the edge into the graph at once
\* and leaves the pending list alone; with options.when it appends one
\* entry to the end of this call's pending list and leaves the graph alone,
\* which has no routing function before finalization; a pending list holds
\* the conditional edges of its own defineWorkflow call and no others
C12_AddEdgeFrame ==
    /\ [][AddEdgeStep =>
            IF LastOp.when = Undefined
            THEN /\ session'.builder.graph.edges =
                        Append(session.builder.graph.edges, <<LastOp.from, LastOp.to>>)
                 /\ session'.builder.conditionalEdges = session.builder.conditionalEdges
            ELSE /\ session'.builder.conditionalEdges =
                        Append(session.builder.conditionalEdges,
                               [from |-> LastOp.from, to |-> LastOp.to,
                                when |-> LastOp.when])
                 /\ session'.builder.graph = session.builder.graph]_vars
    /\ [](/\ session.builder.conditionalEdges =
                [k \in 1..Len(WhenCalls) |->
                    [from |-> WhenCalls[k].op.from, to |-> WhenCalls[k].op.to,
                     when |-> WhenCalls[k].op.when]]
          /\ session.status = "building" => DOMAIN session.builder.graph.branches = {})

\* a second defineWorkflow call holds one pending edge of its own while the
\* workflow compiled by the first has its routing function
C12_Witness ==
    /\ defines = 2
    /\ session.status = "building"
    /\ Len(session.builder.conditionalEdges) = 1
    /\ Len(apps) = 1
    /\ DOMAIN apps[1].branches # {}

\* the step is one addNode call on the handle
AddNodeStep ==
    /\ session'.made = session.made + 1
    /\ session'.calls[Len(session'.calls)].op.op = "addNode"
LastCall == session'.calls[Len(session'.calls)]

\* C13: addNode with a type the callable registry does not hold throws the
\* not-found error, adds no node and changes no registry; with a registered
\* type it calls that type's registration function once, for this id, and
\* when that function returns, returns the handle {id}
C13_AddNodeLooksUpType ==
    [][AddNodeStep =>
          IF ~RegHas(callables, LastCall.op.nodeType)
          THEN /\ ~LastCall.ok
               /\ LastCall.error = "CallableNotFound"
               /\ thrown' = "CallableNotFound"
               /\ session'.builder = session.builder
               /\ session'.invoked = session.invoked
               /\ session'.handles = session.handles
               /\ UNCHANGED <<callables, workflows, tools>>
          ELSE /\ session'.invoked =
                     Append(session.invoked,
                            [fn |-> RegGet(callables, LastCall.op.nodeType).fn,
                             id |-> LastCall.op.id])
               /\ LastCall.error # "CallableNotFound"
               /\ LastCall.ok => /\ session'.handles =
                                       Append(session.handles, [id |-> LastCall.op.id])
                                 /\ LastCall.op.id \in DOMAIN session'.builder.graph.nodes
               /\ ~LastCall.ok => session'.handles = session.handles]_vars

\* a callback added n1 with a registered type, got its handle, and then
\* asked for a type nobody registered
C13_Witness ==
    /\ session.status = "failed"
    /\ session.handles = <<[id |-> "n1"]>>
    /\ Len(session.invoked) = 1
    /\ Len(session.calls) = 2
    /\ session.calls[2].error = "CallableNotFound"
    /\ DOMAIN session.builder.graph.nodes = {"n1"}
    /\ thrown = "CallableNotFound"

\* C14: addNode under an id a node of this graph already has throws the
\* already-present error and leaves the graph, the first node included, as
\* it was; the ids of the nodes added are pairwise distinct and are the
\* ids of the graph's nodes
C14_NodeIdsUnique ==
    /\ [][(/\ AddNodeStep
            /\ RegHas(callables, LastCall.op.nodeType)
            /\ LastCall.op.id \in DOMAIN session.builder.graph.nodes) =>
               /\ ~LastCall.ok
               /\ LastCall.error = "NodeAlreadyPresent"
               /\ thrown' = "NodeAlreadyPresent"
               /\ session'.builder.graph = session.builder.graph]_vars
    /\ [](/\ \A i, j \in 1..Len(session.handles) :
                  session.handles[i].id = session.handles[j].id => i = j
          /\ DOMAIN session.builder.graph.nodes =
                {session.handles[i].id : i \in 1..Len(session.handles)})

\* n1 was added as an http-tool node writing flag; adding n1 again as an
\* agent node writing answer threw, and n1 still writes flag
C14_Witness ==
    /\ Len(session.calls) = 2
    /\ session.calls[1].ok
    /\ session.calls[2].error = "NodeAlreadyPresent"
    /\ session.calls[2].op.config.targetKey = "answer"
    /\ session.builder.graph.nodes["n1"].targetKey = "flag"
    /\ session.handles = <<[id |-> "n1"]>>

\* the build callback returned, so that finalize and compile ran
Compiling == Closed /\ Returned = BuildCalls
Unregistered ==
    /\ session.status = "failed"
    /\ session.app = 0
    /\ ~RegHas(workflows, session.id)
    /\ ~RegHas(callables, session.id)

\* C15 as stated: whenever a declared edge names a node the graph does not
\* have, compile fails with the unknown-node error and nothing is registered
C15_UnknownReferenceError ==
    (Compiling /\ Dangling # {}) =>
        /\ Unregistered
        /\ thrown \in {"UnknownSourceNode", "UnknownTargetNode"}

\* C15 amended: whenever a declared edge names a node the graph does not
\* have, compile fails and nothing is registered; the error is the
\* unknown-node error, except that an unknown target in a graph with a node
\* that is no edge's target is reported as that node being unreachable
C15_DanglingEdgeFailsCompile ==
    (Compiling /\ Dangling # {}) =>
        /\ Unregistered
        /\ thrown =
             IF \E i \in Dangling : session.calls[i].op.from \notin NodesAdded \cup {START}
             THEN "UnknownSourceNode"
             ELSE IF Orphans # {} THEN "UnreachableNode"
             ELSE "UnknownTargetNode"

\* n1 is reached from START and its only way on is a conditional edge to
\* n2, which was never added: compile threw and nothing was registered
C15_Witness ==
    /\ Compiling
    /\ session.status = "failed"
    /\ thrown = "UnknownTargetNode"
    /\ NodesAdded = {"n1"}
    /\ \E i \in Dangling : session.calls[i].op.to = "n2" /\ session.calls[i].op.when # Undefined
    /\ apps = << >>

\* the calls made on the handle after compile
LateCalls == {i \in 1..Len(session.calls) : session.calls[i].late}
PlainDeclared ==
    SelectSeq(session.calls, LAMBDA c : /\ ~c.late /\ c.ok /\ c.op.op = "addEdge"
                                        /\ c.op.when = Undefined)
WhenDeclared(s) ==
    SelectSeq(session.calls, LAMBDA c : /\ ~c.late /\ c.ok /\ c.op.op = "addEdge"
                                        /\ c.op.from = s /\ c.op.when # Undefined)

\* C16: after compile, a builder call on a retained handle throws or
\* changes the builder only: no compiled workflow and no registry changes,
\* and the compiled workflow has the nodes, edges and routing functions of
\* the calls made before the callback returned
C16_CompiledIsFrozen ==
    /\ [][(session.status = "compiled" /\ session'.made = session.made + 1) =>
             UNCHANGED <<apps, workflows, callables, savers>>]_vars
    /\ [](session.status = "compiled" =>
             LET w == apps[session.app]
             IN  /\ DOMAIN w.nodes = NodesAdded
                 /\ w.edges = [k \in 1..Len(PlainDeclared) |->
                                  <<PlainDeclared[k].op.from, PlainDeclared[k].op.to>>]
                 /\ DOMAIN w.branches = {s \in NodesAdded \cup {START} : WhenFrom(s) # {}}
                 /\ \A s \in DOMAIN w.branches :
                       w.branches[s].edges =
                         [k \in 1..Len(WhenDeclared(s)) |->
                             [from |-> s, to |-> WhenDeclared(s)[k].op.to,
                              when |-> WhenDeclared(s)[k].op.when]])

\* after compile the retained handle added node n2 to the builder; the
\* compiled workflow still has n1 alone
C16_Witness ==
    /\ session.status = "compiled"
    /\ \E i \in LateCalls : session.calls[i].ok /\ session.calls[i].op.op = "addNode"
    /\ DOMAIN session.builder.graph.nodes = {"n1", "n2"}
    /\ DOMAIN apps[session.app].nodes = {"n1"}

----------------------------------------------------------------------------
(* Errors of a run *)

RunErrors == {"ZodError", "HandlerError", "InvalidUpdateError", "GraphRecursionError"}
\* the run of the caller is over
RunOver == stack = << >> /\ log # << >>
\* the handlers of the caller's workflow that threw
TopFailures == {i \in Events("result") : log[i].depth = 1 /\ ~log[i].ok}
TopEnd == {i \in Events("end") : log[i].depth = 1}

\* C17 as stated: run catches the errors of a run and returns a failure
\* value, so that no call of run is rejected
C17_FailureReturnedAsValue ==
    RunOver => outcome.status = "resolved"

\* C17 amended: run catches nothing: invalid input rejects it with the
\* parser's error before any node ran, a handler that threw and a passed
\* step limit reject it with the error app.invoke raised, and the rejection
\* is that error alone, without a value, a workflow id or a node id
C17_ErrorsEscapeRun ==
    RunOver =>
        /\ ~log[1].ok =>
              /\ outcome = [status |-> "rejected", app |-> log[1].app,
                            value |-> EmptyState, error |-> "ZodError"]
              /\ Len(log) = 1
        /\ TopFailures # {} => outcome.status = "rejected"
        /\ \A e \in TopEnd :
              ~log[e].ok => outcome = [status |-> "rejected", app |-> log[e].app,
                                       value |-> EmptyState, error |-> log[e].error]
        /\ outcome.status = "rejected" =>
              /\ outcome.error \in RunErrors
              /\ outcome.value = EmptyState
              /\ DOMAIN outcome = {"status", "app", "value", "error"}
        /\ outcome.status = "resolved" => log[1].ok /\ TopFailures = {}

\* a node of the caller's workflow threw and run was rejected with its error
C17_Witness ==
    /\ RunOver
    /\ TopFailures # {}
    /\ outcome.status = "rejected"
    /\ outcome.error = "HandlerError"
    /\ \A i \in Events("run") : i = 1

----------------------------------------------------------------------------
(* The end of a run *)

\* the commit at position c is followed at once by the successful end of
\* its run
EndsRun(c) ==
    /\ c < Len(log)
    /\ log[c + 1].type = "end"
    /\ log[c + 1].run = log[c].run
    /\ log[c + 1].ok
\* the nodes whose routing function ran and returned no target
Unmatched ==
    {r \in Events("result") : log[r].route.evaluated > 0 /\ log[r].route.targets = << >>}

----------------------------------------------------------------------------
(* Tasks of one step *)

\* C19: every node of a step is called with, and has its edges decided
\* from, the state as the step before left it, also when another node of
\* the same step has already returned its update; the updates of a step
\* reach the state only when the step closes, after all its nodes returned
C19_StepReadsItsStartState ==
    /\ \A i \in Events("invoke") \cup Events("result") :
          log[i].step > 0 => log[i].seen = log[LastCommitBefore(i)].after
    /\ \A c \in Events("commit") :
          /\ log[c].step > 0 => log[c].before = log[LastCommitBefore(c)].after
          /\ \A r \in ResultsOf(c) : r < c /\ log[r].seen = log[c].before
          /\ \A n \in log[c].ran : \E r \in ResultsOf(c) : log[r].node = n

\* two nodes of one step: the second was called after the first had
\* returned a field, and did not see that field
C19_Witness ==
    \E r1, r2 \in Events("result") :
        /\ r1 < r2
        /\ log[r1].run = log[r2].run
        /\ log[r1].step = log[r2].step
        /\ log[r1].ok /\ log[r2].ok
        /\ \E k \in DOMAIN log[r1].update : k \notin DOMAIN log[r2].seen
        /\ \E c \in Events("commit") :
              /\ c > r2 /\ log[c].run = log[r2].run /\ log[c].step = log[r2].step
              /\ \A k \in DOMAIN log[r1].update : k \in DOMAIN log[c].after

\* two nodes of one step that both returned a value for one state field
SameFieldWriters ==
    {p \in Events("result") \X Events("result") :
        /\ p[1] # p[2]
        /\ log[p[1]].run = log[p[2]].run
        /\ log[p[1]].step = log[p[2]].step
        /\ log[p[1]].ok /\ log[p[2]].ok
        /\ DOMAIN log[p[1]].update \cap DOMAIN log[p[2]].update
              \cap apps[log[p[1]].app].stateKeys # {}}
\* the position among the declared edges of the conditional edge to node n
DeclaredAt(app, n) ==
    LET edges == DeclaredEdges(app)
    IN  CHOOSE i \in 1..Len(edges) : edges[i].to = n /\ edges[i].when # Undefined
CommitsOf(r) ==
    {c \in Events("commit") : log[c].run = log[r].run /\ log[c].step = log[r].step}
EndsOf(r) == {e \in Events("end") : log[e].run = log[r].run}

\* C20 as stated: when two branches of a step write the same field the run
\* goes on, and the field takes the value of the branch whose conditional
\* edge was declared last
C20_LastDeclaredWriterWins ==
    stack = << >> =>
        \A p \in SameFieldWriters :
            LET last == IF DeclaredAt(log[p[1]].app, log[p[1]].node) >
                           DeclaredAt(log[p[2]].app, log[p[2]].node)
                        THEN p[1] ELSE p[2]
            IN  \E c \in CommitsOf(p[1]) :
                    \A k \in DOMAIN log[p[1]].update \cap DOMAIN log[p[2]].update :
                        log[c].after[k] = log[last].update[k]

\* C20 amended: when two branches of a step write the same field the
\* outcome is deterministic and independent of the order in which they
\* finish, but it is a failure: the step is not closed, none of its updates
\* reaches the saved state, and the run is rejected with the runtime's
\* invalid-update error
C20_SameFieldWritersRejected ==
    \A p \in SameFieldWriters :
        /\ CommitsOf(p[1]) = {}
        /\ \A e \in EndsOf(p[1]) :
              /\ ~log[e].ok
              /\ log[e].error = "InvalidUpdateError"
              /\ log[e].value = EmptyState
        /\ (stack = << >> /\ log[p[1]].depth = 1) =>
              /\ EndsOf(p[1]) # {}
              /\ outcome.status = "rejected"
              /\ outcome.error = "InvalidUpdateError"
              /\ Saved(log[p[1]].app) = log[p[1]].seen

\* nodeB and nodeE both wrote b in one step; nodeE, whose edge was declared
\* last, returned first; the run was rejected
C20_Witness ==
    /\ stack = << >>
    /\ outcome.error = "InvalidUpdateError"
    /\ \E p \in SameFieldWriters :
          /\ log[p[1]].node = "nodeE" /\ log[p[2]].node = "nodeB"
          /\ p[1] < p[2]
          /\ log[p[1]].update # log[p[2]].update

----------------------------------------------------------------------------
(* Runs and their checkpoints *)

\* the fields the run that ends at position x was given or wrote itself
OwnFields(x) ==
    DOMAIN log[RunOf(x)].input \cup
    UNION {DOMAIN log[r].update :
              r \in {q \in Events("result") : log[q].run = RunOf(x)}}

\* C21: a run starts from a fresh state made of its own validated input, so
\* that every field of the state it returns was in its input or written by
\* one of its own handlers, and nothing an earlier run of the same compiled
\* workflow wrote shows in it
C21_RunStartsFresh ==
    \A x \in Events("end") :
        log[x].ok => DOMAIN log[x].value \subseteq OwnFields(x)

\* a run, of the caller or of a workflow node, starts in this step
Opens == Len(stack') > Len(stack)
Opened == stack'[Len(stack')]
\* what the store of an app holds for the thread id all runs pass
Held(app) ==
    IF THREAD_ID \in DOMAIN savers[app] THEN savers[app][THREAD_ID] ELSE EmptyState

\* C22: every compiled workflow has a checkpoint store of its own, so that
\* runs of different workflows, a parent's run and the child's run it
\* awaits included, keep apart under the one thread id they all pass: a run
\* starts from what its own workflow's store holds and a step writes the
\* store of the workflow whose run takes it, and no other
C22_CheckpointsApart ==
    [][/\ Len(savers') >= Len(savers)
       /\ \A a \in 1..Len(savers) :
             savers'[a] # savers[a] =>
                 a = IF Opens THEN Opened.app ELSE Top.app
       /\ Opens =>
             LET w == apps[Opened.app]
                 input == log'[Opened.opened].input
             IN  Opened.values =
                     Merge(Held(Opened.app),
                           Restrict(Parse(w.inputSchema, input), w.stateKeys))]_vars

\* the run of a workflow node ended while its parent waited: the child's
\* store and the parent's store hold different states under the same key
C22_Witness ==
    /\ Len(stack) = 1
    /\ \E e \in Events("end") : log[e].depth = 2 /\ log[e].ok
    /\ \E a \in 1..Len(savers) :
          /\ a # Top.app
          /\ Held(a) # EmptyState
          /\ Held(Top.app) # EmptyState
          /\ Held(a) # Held(Top.app)
    /\ runs = 2

----------------------------------------------------------------------------
(* The registries *)

\* C23: a workflow id is registered once: a defineWorkflow call either adds
\* one entry, under an id the registry did not hold, for the workflow it
\* just compiled, or it throws and adds none; the workflow get(id) returns
\* never changes once the id is registered, and it is the workflow that was
\* compiled for that id
C23_WorkflowIdRegisteredOnce ==
    /\ [][/\ \A id \in WorkflowIds :
                RegHas(workflows, id) =>
                    /\ RegGet(workflows', id) = RegGet(workflows, id)
                    /\ apps'[RegGet(workflows', id)] = apps[RegGet(workflows, id)]
          /\ defines' = defines + 1 =>
                IF thrown' \in {NoError, "CallableAlreadyRegistered"}
                THEN /\ Len(workflows') = Len(workflows) + 1
                     /\ Len(apps') = Len(apps) + 1
                     /\ LET id == workflows'[Len(workflows')].key
                        IN  /\ ~RegHas(workflows, id)
                            /\ RegGet(workflows', id) = Len(apps')
                            /\ apps'[Len(apps')].id = id
                ELSE workflows' = workflows /\ apps' = apps]_vars
    /\ [](/\ \A i, j \in 1..Len(workflows) :
                workflows[i].key = workflows[j].key => i = j
          /\ \A i \in 1..Len(workflows) :
                /\ workflows[i].val \in 1..Len(apps)
                /\ apps[workflows[i].val].id = workflows[i].key)

\* defineWorkflow was called again with a registered id and threw; the
\* registry holds the workflow compiled by the first call
C23_Witness ==
    /\ thrown = "WorkflowAlreadyRegistered"
    /\ defines = 2
    /\ Len(workflows) = 1
    /\ Len(apps) = 1
    /\ RegGet(workflows, workflows[1].key) = 1

\* the step is a get or has call
Looked == returned'.turn # returned.turn /\ returned'.op \in {"get", "has"}
\* the entries of the registry a call was made on, before the call
Entries == Registry(returned'.registry)
Holding == {i \in 1..Len(Entries) : Entries[i].key = returned'.key}

\* C24: get and has only read: get returns the handler registered under the
\* key, or undefined when there is none, has returns whether there is one,
\* and both leave all three registries, keys and handlers, as they were
C24_LookupsReadOnly ==
    [][Looked =>
          /\ UNCHANGED <<callables, workflows, tools>>
          /\ returned'.op = "get" =>
                IF Holding = {} THEN returned'.value = Undefined
                ELSE \A i \in Holding : returned'.value = Entries[i].val
          /\ returned'.op = "has" => returned'.value = (Holding # {})]_vars

\* get was asked for a key the callable registry does not hold: it
\* returned undefined and the registry holds what it held
C24_Witness ==
    /\ returned.op = "get"
    /\ returned.registry = "callable"
    /\ returned.key = "ghost"
    /\ returned.value = Undefined
    /\ ~RegHas(callables, "ghost")
    /\ Len(workflows) = 2

\* the keys of the entries of a registry, in the order of the entries
KeysOf(reg) == [i \in 1..Len(reg) |-> reg[i].key]
\* a listing after a step: the listing before it, or that with one key it
\* did not hold added at the end by a call that did not throw
ListingGrew(before, after, threw) ==
    \/ after = before
    \/ /\ ~threw
       /\ Len(after) = Len(before) + 1
       /\ SubSeq(after, 1, Len(before)) = before
       /\ \A i \in 1..Len(before) : before[i] # after[Len(after)]
Listed == returned'.turn # returned.turn /\ returned'.op = "list"

\* C25: listCallables, listWorkflows and listTools return the keys of the
\* entries, which are the keys whose register call did not throw, each
\* once; a register call that throws adds nothing and one that succeeds
\* adds its key at the end, so that the keys listed before keep their order
C25_ListingStable ==
    /\ [][/\ ListingGrew(KeysOf(callables), KeysOf(callables'),
                          thrown' = "CallableAlreadyRegistered")
          /\ ListingGrew(KeysOf(workflows), KeysOf(workflows'),
                          thrown' = "WorkflowAlreadyRegistered")
          /\ ListingGrew(KeysOf(tools), KeysOf(tools'),
                          thrown' = "ToolAlreadyRegistered")
          /\ Listed =>
                /\ returned'.value = KeysOf(Registry(returned'.registry))
                /\ UNCHANGED <<callables, workflows, tools>>]_vars
    /\ [](\A which \in Registries :
             LET keys == List(Registry(which)).value
             IN  \A i, j \in 1..Len(keys) : keys[i] = keys[j] => i = j)

\* the callable registry was listed after a node type and a workflow were
\* registered on top of the three it starts with, and after a register call
\* for a key it holds threw
C25_Witness ==
    /\ returned.op = "list"
    /\ returned.registry = "callable"
    /\ Len(returned.value) = 5
    /\ SubSeq(returned.value, 1, 3) = << "agent", "http-tool", "location-tool" >>
    /\ thrown = "CallableAlreadyRegistered"

----------------------------------------------------------------------------
(* Tracing *)

\* C26: run engages the tracing collaborator at most once, and a failure of
\* the collaborator, when it is constructed or when it is called, never
\* makes the run fail: a run whose tracer threw or whose callbacks throw
\* is not rejected for it
C26_TracingNeverFailsRun ==
    \A i \in Events("run") :
        /\ log[i].tracer \in {"none", "made", "failing", "threw"}
        /\ (log[i].depth = 1 /\ log[i].tracer \in {"failing", "threw"}) =>
              ~(outcome.status = "rejected" /\ outcome.error = "TracingError")

----------------------------------------------------------------------------
(* The execute endpoint *)

Answered == request.status = "answered"
Known == RegHas(workflows, request.id)
\* result holds fields of the final state only, with their values
PartOf(result, final) ==
    /\ DOMAIN result \subseteq DOMAIN final
    /\ \A f \in DOMAIN result : result[f] = final[f]

Asked == {request.fields.items[i] : i \in 1..Len(request.fields.items)}

\* C28: a 200 response to a request with a non-empty fields array carries
\* in result exactly the fields asked for that the final state of the run
\* has, each with its final value; a request without fields gets the whole
\* final state
C28_FieldSelection ==
    (Answered /\ response[1].status = 200) =>
        LET result == response[1].body.result
            final == outcome.value
        IN  IF request.fields.kind = "array" /\ Len(request.fields.items) > 0
            THEN /\ DOMAIN result = (DOMAIN final) \cap Asked
                 /\ \A f \in DOMAIN result : result[f] = final[f]
            ELSE result = final

\* three fields were asked for, one of which no state has; the final state
\* holds three fields and the result the two of them that were asked for
C28_Witness ==
    /\ Answered
    /\ response[1].status = 200
    /\ request.fields = FieldsArray(<< "shopsRaw", "bogus", "location" >>)
    /\ DOMAIN outcome.value = {"location", "weatherText", "shopsRaw"}
    /\ DOMAIN response[1].body.result = {"location", "shopsRaw"}

----------------------------------------------------------------------------
(* No retry *)

\* the handlers of one step are started together, and the log holds the
\* invoke event of each where it settled: a handler started after a failure
\* is one of a later step, or the failed one started again
FailedResults == {i \in Events("result") : ~log[i].ok}

\* C29: the runtime does not retry: in one run a node's handler is invoked
\* once for each step the node is active in, and once a handler of the run
\* has failed no handler of a later step of that run is invoked, nor the
\* failed handler again
C29_NoRetry ==
    /\ \A i, j \in Events("invoke") :
           (/\ log[i].run = log[j].run
            /\ log[i].step = log[j].step
            /\ log[i].node = log[j].node) => i = j
    /\ \A r \in FailedResults : \A j \in Events("invoke") :
           (j > r /\ log[j].run = log[r].run) =>
               /\ log[j].step = log[r].step
               /\ log[j].node # log[r].node

\* a handler failed in a step after the first handlers of the run had run,
\* and the run was rejected with its error
C29_Witness ==
    /\ stack = << >>
    /\ outcome.status = "rejected"
    /\ outcome.error = "HandlerError"
    /\ \E r \in FailedResults :
           /\ log[r].depth = 1
           /\ log[r].step >= 2
           /\ \E j \in Events("invoke") : log[j].run = log[r].run /\ log[j].step < log[r].step

----------------------------------------------------------------------------
(* Runs that take too long *)

\* the innermost app.invoke awaits a handler that never settles
Hung == stack # << >> /\ Top.awaiting # ""
CommitsIn(frame) == {i \in Events("commit") : log[i].run = frame.opened}
Latest(S) == CHOOSE i \in S : \A j \in S : j <= i

\* C30: a run that exceeds the run-level timeout is aborted and its caller
\* gets a RunTimeout error: a run that awaits a handler that never settles
\* comes to be rejected with RunTimeout
C30_TimeoutAborts ==
    Hung ~> (stack = << >> /\ outcome.status = "rejected"
                          /\ outcome.error = "RunTimeout")

\* C30 as the code has it: there is no run-level timeout. A run that awaits
\* a handler that never settles is never aborted: it stays as it is, its
\* caller gets neither a result nor an error, and the checkpoint store
\* holds for each app.invoke in progress the state its last completed step
\* produced, or the one it started from
C30_NoTimeout ==
    /\ [][Hung => (Hung' /\ UNCHANGED <<stack, outcome, savers, log, runs>>)]_vars
    /\ [](Hung =>
             /\ outcome.status = "pending"
             /\ \A k \in 1..Len(stack) :
                    /\ Saved(stack[k].app) = stack[k].values
                    /\ CommitsIn(stack[k]) # {} =>
                          stack[k].values = log[Latest(CommitsIn(stack[k]))].after
                    /\ CommitsIn(stack[k]) = {} => stack[k].step = 0)

\* the weather workflow run inside the location workflow awaits its second
\* handler, which never settles, after its first steps were checkpointed
C30_Witness ==
    /\ Hung
    /\ Len(stack) = 2
    /\ Top.step >= 2
    /\ CommitsIn(Top) # {}
    /\ "weatherText" \in DOMAIN Saved(Top.app)
    /\ outcome.status = "pending"

----------------------------------------------------------------------------
(* finalizeConditionalEdges: grouping *)

\* the build callback returned and defineWorkflow goes on to finalize
Finalizing ==
    /\ session.status = "building"
    /\ session'.status # "building"
    /\ session'.made = session.made
\* the places of the pending list that hold an edge from source s
PlacesFrom(pending, s) == {k \in 1..Len(pending) : pending[k].from = s}
\* the j-th smallest of a set of places
Nth(places, j) ==
    CHOOSE k \in places : Cardinality({m \in places : m <= k}) = j

\* C31: finalizeConditionalEdges attaches one routing function for each
\* source id of the pending list and for no other node; the function of a
\* source is built from the pending edges of that source, all of them, in
\* the order they were declared in, so that every pending edge is in the
\* function of its source and in no other; an empty list attaches nothing
C31_GroupedBySource ==
    [][Finalizing =>
        LET pending == session.builder.conditionalEdges
            before == session.builder.graph.branches
            after == session'.builder.graph.branches
        IN  /\ DOMAIN before = {}
            /\ DOMAIN after = {pending[k].from : k \in 1..Len(pending)}
            /\ \A s \in DOMAIN after :
                   LET places == PlacesFrom(pending, s)
                   IN  /\ Len(after[s].edges) = Cardinality(places)
                       /\ \A j \in 1..Len(after[s].edges) :
                              after[s].edges[j] = pending[Nth(places, j)]
            /\ session'.status = "compiled" =>
                   apps'[session'.app].branches = after]_vars

\* a callback declared a conditional edge from n1, one from n2 and then a
\* second one from n1: the graph has two routing functions, that of n1
\* with two edges
C31_Witness ==
    /\ Closed
    /\ LateCalls = {}
    /\ Len(session.builder.conditionalEdges) = 3
    /\ session.builder.conditionalEdges[1].from = "n1"
    /\ session.builder.conditionalEdges[2].from = "n2"
    /\ session.builder.conditionalEdges[3].from = "n1"
    /\ DOMAIN session.builder.graph.branches = {"n1", "n2"}
    /\ Len(session.builder.graph.branches["n1"].edges) = 2

----------------------------------------------------------------------------
(* finalizeConditionalEdges: possible targets *)

\* the states a routing function of these workflows may be applied to
RoutedStates == UNION {[d -> Scalars] : d \in SUBSET {"flag", "note"}}
Elements(s) == {s[i] : i \in 1..Len(s)}
\* the routing functions attached so far: those of the graph being built
\* and those of the compiled workflows
Attached ==
    {session.builder.graph.branches[s] : s \in DOMAIN session.builder.graph.branches}
    \cup UNION {{apps[a].branches[s] : s \in DOMAIN apps[a].branches} :
                  a \in 1..Len(apps)}

\* C32: the possible targets declared with a routing function are the
\* targets of the conditional edges of its source, each once, and in every
\* state what the routing function returns is among them
C32_TargetsDeclared ==
    \A br \in Attached :
        /\ Elements(br.possibleTargets) = {br.edges[k].to : k \in 1..Len(br.edges)}
        /\ \A i, j \in 1..Len(br.possibleTargets) :
               br.possibleTargets[i] = br.possibleTargets[j] => i = j
        /\ \A state \in RoutedStates :
               Elements(RoutingFn(br.edges, state).targets)
                   \subseteq Elements(br.possibleTargets)

\* the routing function of n1 was built from three edges, two of them to
\* the same target: two possible targets
C32_Witness ==
    /\ Closed
    /\ "n1" \in DOMAIN session.builder.graph.branches
    /\ Len(session.builder.graph.branches["n1"].edges) = 3
    /\ Len(session.builder.graph.branches["n1"].possibleTargets) = 2

----------------------------------------------------------------------------
(* What a node's handler changes *)

ToolResults ==
    {i \in Events("result") :
        /\ log[i].node # START
        /\ apps[log[i].app].nodes[log[i].node].kind = "tool"}
\* the fields in which two states differ
Differ(s, u) ==
    {f \in (DOMAIN s) \cup (DOMAIN u) :
        ~(f \in DOMAIN s /\ f \in DOMAIN u /\ s[f] = u[f])}
\* a handler has just failed
Failing ==
    \E i \in (Len(log) + 1)..Len(log') : log'[i].type = "result" /\ ~log'[i].ok

\* C33: the handler of a tool, agent or LLM node returns an update of one
\* field, the node's targetKey, so that a step in which such nodes ran
\* changes no field but their targetKeys; when a handler throws nothing is
\* written: no checkpoint changes and the step is never committed
C33_ToolWritesTargetKey ==
    /\ [](\A i \in ToolResults :
             log[i].ok =>
                 DOMAIN log[i].update = {apps[log[i].app].nodes[log[i].node].targetKey})
    /\ [](\A c \in Events("commit") :
             (\A n \in log[c].ran \ {START} :
                  apps[log[c].app].nodes[n].kind = "tool") =>
                 Differ(log[c].before, log[c].after) \subseteq
                     {apps[log[c].app].nodes[n].targetKey : n \in log[c].ran \ {START}})
    /\ [](\A r \in FailedResults : \A c \in Events("commit") :
             log[c].run = log[r].run => log[c].step < log[r].step)
    /\ [][Failing => savers' = savers]_vars

\* a step in which one tool node ran was committed with a state that holds
\* other fields too, and the handler of a later node of the run threw
C33_Witness ==
    /\ \E c \in Events("commit") :
           /\ Cardinality(log[c].ran) = 1
           /\ log[c].ran \subseteq {log[i].node : i \in ToolResults}
           /\ Cardinality(DOMAIN log[c].before) >= 1
           /\ Differ(log[c].before, log[c].after) # {}
    /\ \E r \in FailedResults : r \in ToolResults /\ log[r].step >= 2

----------------------------------------------------------------------------
(* The two registries of a workflow *)

\* C34: a workflow id is in the workflow registry exactly when the callable
\* registry holds under that id the registration function the same
\* defineWorkflow call made for the workflow, and a defineWorkflow call
\* that throws leaves both registries as they were
C34_RegistriesAgree ==
    /\ [](\A id \in WorkflowIds :
             RegHas(workflows, id) <=>
                 /\ RegHas(callables, id)
                 /\ RegGet(callables, id).kind = "workflow"
                 /\ RegGet(callables, id).app = RegGet(workflows, id))
    /\ [][(defines' = defines + 1 /\ thrown' # NoError) =>
             UNCHANGED <<workflows, callables>>]_vars

----------------------------------------------------------------------------
(* Edges that share a target *)

Routed == {i \in Events("result") : log[i].ok /\ log[i].node # START}
\* the handlers of node n invoked in the step after the one event i is of
InvokedNext(i, n) ==
    {j \in Events("invoke") : /\ log[j].run = log[i].run
                              /\ log[j].step = log[i].step + 1
                              /\ log[j].node = n}

\* C35: the routing function returns no target twice: when the matching
\* edges of a source share their target the function returns that target
\* alone, as the single target
C35_TargetsReturnedOnce ==
    \A i \in Routed :
        LET targets == log[i].route.targets
        IN  /\ \A j, k \in 1..Len(targets) : targets[j] = targets[k] => j = k
            /\ Cardinality(Elements(targets)) = 1 => log[i].route.single

\* C35 as the code has it: the routing function returns a target once for
\* each matching edge, so the same target twice when two edges to it match,
\* and then as a list and not as the single target; the target is still
\* activated once, its handler being invoked once in the step that follows
C35_TargetActivatedOnce ==
    \A i \in Routed :
        LET edges == DeclaredConditional(log[i].app, log[i].node)
            targets == log[i].route.targets
        IN  /\ Len(targets) = Cardinality(Matching(edges, log[i].at))
            /\ log[i].route.single = (Len(targets) = 1)
            /\ \A n \in Elements(targets) :
                   /\ n \in log[i].next
                   /\ Cardinality(InvokedNext(i, n)) <= 1

\* both edges from pick to done matched: the routing function returned done
\* twice, done ran once and the run ended with its update
C35_Witness ==
    /\ stack = << >>
    /\ outcome.status = "resolved"
    /\ "out" \in DOMAIN outcome.value
    /\ \E i \in Routed :
           /\ log[i].route.targets = << "done", "done" >>
           /\ ~log[i].route.single
           /\ Cardinality(InvokedNext(i, "done")) = 1

----------------------------------------------------------------------------
(* Nesting *)

\* the compiled workflows the workflow nodes of compiled workflow a run
ChildrenIn(compiled, a) ==
    {compiled[a].nodes[n].app :
        n \in {m \in DOMAIN compiled[a].nodes :
                   compiled[a].nodes[m].kind = "workflow"}}
ChildrenOf(a) == ChildrenIn(apps, a)
\* the workflow ids the build callback of id names as node types
NestedTypes(id) ==
    {Definition(id).ops[i].nodeType :
        i \in {k \in 1..Len(Definition(id).ops) :
                   /\ Definition(id).ops[k].op = "addNode"
                   /\ Definition(id).ops[k].nodeType \in WorkflowIds}}
\* how deep the runs of compiled workflow a nest
RECURSIVE NestingDepth(_)
NestingDepth(a) ==
    IF ChildrenOf(a) = {} THEN 1
    ELSE 1 + NestingDepth(CHOOSE c \in ChildrenOf(a) :
                              \A d \in ChildrenOf(a) : NestingDepth(d) <= NestingDepth(c))

\* C36: nesting is well-founded. A workflow node of a compiled workflow
\* runs a workflow that was compiled and registered before its own
\* defineWorkflow call began, so no workflow contains itself, directly or
\* through others, and its runs nest no deeper than the number of workflows
\* compiled before it; a defineWorkflow call whose callback names the
\* workflow's own id, or an id no call has registered yet, throws
C36_NestingWellFounded ==
    /\ [](\A a \in 1..Len(apps) :
             /\ \A c \in ChildrenOf(a) : c \in 1..(a - 1)
             /\ NestingDepth(a) <= a)
    /\ [][Len(apps') = Len(apps) + 1 =>
             \A c \in ChildrenIn(apps', Len(apps')) :
                 /\ c \in 1..Len(apps)
                 /\ apps[c].id # apps'[Len(apps')].id
                 /\ RegGet(workflows, apps[c].id) = c
                 /\ RegGet(callables, apps[c].id) = WorkflowRegistration(c)]_vars
    /\ [][\A id \in WorkflowIds :
             (DefineWorkflow(id) /\ \E type \in NestedTypes(id) :
                                       ~RegHas(callables, type)) =>
                 /\ thrown' # NoError
                 /\ UNCHANGED <<apps, workflows, callables>>]_vars

\* the weather workflow was defined and then a workflow that nests it; a
\* third call, whose callback named its own workflow, threw
C36_Witness ==
    /\ defines = 3
    /\ Len(apps) = 2
    /\ ChildrenOf(2) = {1}
    /\ NestingDepth(2) = 2
    /\ thrown = "CallableNotFound"
    /\ ~RegHas(workflows, "self-nest")
    /\ ~RegHas(callables, "self-nest")

----------------------------------------------------------------------------
(* Overlapping runs *)

\* the fields a run call has of its own: those of its input and those its
\* handlers wrote
FieldsOf(l) ==
    DOMAIN l[1].input \cup
    UNION {DOMAIN l[r].update :
              r \in {q \in 1..Len(l) : l[q].type = "result" /\ l[q].depth = 1}}
\* a run call, known by its log l and its outcome o, got nothing from
\* another call: it started from its own input, and what it returned holds
\* its own fields only
Alone(l, o) ==
    (Len(l) > 1 /\ l[1].ok) =>
        /\ l[2].seen = Restrict(l[1].input, SchemaKeys(apps[l[1].app].inputSchema))
        /\ o.status = "resolved" => DOMAIN o.value \subseteq FieldsOf(l)

\* C37: two run calls of one compiled workflow that overlap do not
\* interfere: each starts from its own input and returns what it would
\* return alone, and each step of one leaves the checkpoint the other wrote
C37_OverlappingRunsApart ==
    /\ [](Alone(log, outcome) /\ Alone(parked.log, parked.outcome))
    /\ [][(parked.status = "parked" /\ parked' = parked) =>
             \A a \in 1..Len(savers) :
                 (\E k \in 1..Len(parked.stack) : parked.stack[k].app = a) =>
                     savers'[a] = savers[a]]_vars

----------------------------------------------------------------------------
(* The route of the weather workflow *)

\* the texts that hold "yes" in some case
YesTexts == {"yes", "YES", "Eyes open"}
HasYes(state) == "weatherText" \in DOMAIN state /\ state["weatherText"] \in YesTexts
\* the states the weather workflow can be in when weatherCheck has returned
WeatherStates == UNION {[d -> Texts] : d \in SUBSET WeatherKeys}
WeatherApps == {a \in 1..Len(apps) : apps[a].id = "weather-umbrella"}
\* the nodes whose handlers the run has invoked, in order
Invoked ==
    LET calls == SelectSeq(log, LAMBDA e : e.type = "invoke")
    IN  [k \in 1..Len(calls) |-> calls[k].node]
\* what the routing function of weatherCheck must return in a state
OneWay(state) ==
    [single |-> TRUE,
     targets |-> IF HasYes(state) THEN <<"umbrellaShops">> ELSE <<END>>,
     evaluated |-> 2]

\* C38: in the weather workflow exactly one of the two conditional edges
\* out of weatherCheck matches in every state: the one to umbrellaShops if
\* weatherText holds "yes" in any case, the one to END otherwise. So no step
\* of a run has more than one node, a run whose handlers return invokes
\* weatherCheck, then umbrellaShops if and only if weatherText holds "yes",
\* and no other node, and every run that started comes to its end, resolved
\* unless the input was refused or a handler threw
C38_WeatherRunsSerially ==
    /\ [](\A a \in WeatherApps : \A state \in WeatherStates :
             RoutingFn(apps[a].branches["weatherCheck"].edges, state) = OneWay(state))
    /\ [](\A c \in Events("commit") :
             Cardinality(log[c].ran) = 1 /\ Cardinality(log[c].next) <= 1)
    /\ [](\A r \in Events("result") :
             (log[r].ok /\ log[r].node = "weatherCheck") =>
                 log[r].next = IF HasYes(log[r].at) THEN {"umbrellaShops"} ELSE {END})
    /\ []((RunOver /\ outcome.status = "resolved") =>
             Invoked = IF HasYes(outcome.value)
                       THEN <<"weatherCheck", "umbrellaShops">>
                       ELSE <<"weatherCheck">>)
    /\ []((RunOver /\ log[1].ok /\ FailedResults = {}) =>
             outcome.status = "resolved")
    /\ ((stack # << >>) ~> RunOver)

\* a run in which the model answered in capitals went on to umbrellaShops
\* and came to its end
C38_Witness ==
    /\ RunOver
    /\ outcome.status = "resolved"
    /\ "weatherText" \in DOMAIN outcome.value
    /\ outcome.value["weatherText"] = "YES"
    /\ "shopsRaw" \in DOMAIN outcome.value
    /\ Invoked = <<"weatherCheck", "umbrellaShops">>

====
